---- MODULE Spec2Model ----
(***************************************************************************)
(* A model of the trust layer of the journaling application:               *)
(*   - companion/security/encryption.py : AES-GCM envelopes, rotate_keys   *)
(*   - companion/security/passphrase.py : BruteForceProtector              *)
(* Byte strings, JSON texts and files are modelled by their structure; the *)
(* key derivation and the AEAD are modelled symbolically (a ciphertext     *)
(* opens only under the key and nonce it was sealed with).                 *)
(***************************************************************************)
EXTENDS Integers, Sequences, FiniteSets, TLC

\* ------------------------------------------------------------------ bounds
NumFiles == 2        \* record files that can exist in the entries directory
MaxCalls == 2        \* rotate_keys calls that pass the passphrase check
MaxFaults == 1       \* I/O errors (OSError) raised in one behaviour
MaxAttempts == 11    \* failed attempts the attempts file can hold
MaxTicks == 2        \* times the clock is seen to advance in one behaviour
NumCallers == 2      \* threads that call record_attempt at the same time
MaxConcCalls == 3    \* record_attempt calls made by these threads
MaxLines == 3        \* events written to the audit log in one behaviour
MaxDamage == 1       \* lines of the audit log damaged in one behaviour
NumWriters == 2      \* _write_entry calls running side by side
MaxFragments == 4    \* fragments a text given to obfuscate_pii is made of
MaxThreshold == 3    \* largest failure_threshold a circuit breaker is made with
MaxBreakerCalls == 6 \* calls made through one circuit breaker
MaxBreakerTicks == 3 \* times the clock of the circuit breaker is seen to advance
MaxRetries == 2      \* largest max_retries retry_with_backoff is called with
MaxPrompts == 6      \* passphrases typed at the prompt of get_passphrase

Names       == 1..NumFiles
\* The passphrases tried: the empty string and three others.
EmptyPass   == ""
Passphrases == {EmptyPass, "p1", "p2", "p3"}

\* ----------------------------------------------------------- result values
Ok(v) == [ok |-> TRUE, val |-> v]
Err   == [ok |-> FALSE]

\* ------------------------------------------------------------------ base64
\* base64.b64encode / b64decode: the encoded form is a different value from
\* the bytes; decoding accepts only encoded forms.
b64encode(bytes) == <<"b64", bytes>>
b64decode(str)   == str[2]

\* -------------------------------------------------------------------- JSON
\* A JSON object text is the sequence of its "key": value members.  A text
\* that is not JSON (free prose) is tagged "text".
KeyOrder == <<"id", "content", "timestamp", "sentiment">>

RECURSIVE DumpMembers(_, _)
DumpMembers(d, ks) ==
    IF ks = <<>> THEN <<>>
    ELSE IF Head(ks) \in DOMAIN d
         THEN <<<<Head(ks), d[Head(ks)]>>>> \o DumpMembers(d, Tail(ks))
         ELSE DumpMembers(d, Tail(ks))

json_dumps(d) == [kind |-> "object", members |-> DumpMembers(d, KeyOrder)]

json_loads(text) ==
    IF text.kind # "object" THEN Err
    ELSE LET ms == text.members
             Last(k) == CHOOSE i \in 1..Len(ms) :
                           /\ ms[i][1] = k
                           /\ \A j \in (i+1)..Len(ms) : ms[j][1] # k
         IN Ok([k \in {ms[i][1] : i \in 1..Len(ms)} |-> ms[Last(k)][2]])

\* ---------------------------------------------------------- key derivation
\* derive_key: PBKDF2 of (passphrase, salt); the empty passphrase is refused.
derive_key(passphrase, salt) ==
    IF passphrase = EmptyPass THEN Err ELSE Ok(<<passphrase, salt>>)

\* ------------------------------------------------------------------ AES-GCM
AESGCM_encrypt(key, nonce, plaintext) ==
    [key |-> key, nonce |-> nonce, plaintext |-> plaintext]

AESGCM_decrypt(key, nonce, ciphertext) ==
    IF ciphertext.key = key /\ ciphertext.nonce = nonce
    THEN Ok(ciphertext.plaintext) ELSE Err

\* encrypt_entry: salt || nonce || ciphertext, with salt and nonce drawn
\* from os.urandom (the value rnd).
encrypt_entry(content, passphrase, rnd) ==
    IF passphrase = EmptyPass THEN Err
    ELSE LET key == derive_key(passphrase, rnd).val
         IN Ok([salt |-> rnd, nonce |-> rnd,
                ciphertext |-> AESGCM_encrypt(key, rnd, content)])

decrypt_entry(encrypted, passphrase) ==
    IF passphrase = EmptyPass THEN Err
    ELSE LET k == derive_key(passphrase, encrypted.salt)
         IN IF ~k.ok THEN Err
            ELSE AESGCM_decrypt(k.val, encrypted.nonce, encrypted.ciphertext)

\* ---------------------------------------------------------------- envelopes
CryptoKeys == {"salt", "nonce", "ciphertext"}

\* An encrypt_full_entry_to_dict that keeps the timestamp beside the ciphertext.
encrypt_full_entry_to_dict_KeepsTimestamp(entry_data, passphrase, rnd) ==
    IF "id" \notin DOMAIN entry_data THEN Err
    ELSE LET encrypted == encrypt_entry(json_dumps(entry_data), passphrase, rnd)
         IN IF ~encrypted.ok THEN Err
            ELSE Ok([id         |-> entry_data["id"],
                     timestamp  |-> entry_data["timestamp"],
                     encrypted  |-> TRUE,
                     salt       |-> b64encode(encrypted.val.salt),
                     nonce      |-> b64encode(encrypted.val.nonce),
                     ciphertext |-> b64encode(encrypted.val.ciphertext)])

encrypt_full_entry_to_dict(entry_data, passphrase, rnd) ==
    IF "id" \notin DOMAIN entry_data THEN Err
    ELSE LET encrypted == encrypt_entry(json_dumps(entry_data), passphrase, rnd)
         IN IF ~encrypted.ok THEN Err
            ELSE Ok([id         |-> entry_data["id"],
                     encrypted  |-> TRUE,
                     salt       |-> b64encode(encrypted.val.salt),
                     nonce      |-> b64encode(encrypted.val.nonce),
                     ciphertext |-> b64encode(encrypted.val.ciphertext)])

decrypt_full_entry_from_dict(data, passphrase) ==
    IF ~(CryptoKeys \subseteq DOMAIN data) THEN Err
    ELSE LET encrypted == [salt       |-> b64decode(data["salt"]),
                           nonce      |-> b64decode(data["nonce"]),
                           ciphertext |-> b64decode(data["ciphertext"])]
             entry_json == decrypt_entry(encrypted, passphrase)
         IN IF ~entry_json.ok THEN Err ELSE json_loads(entry_json.val)

\* -------------------------------------------------------------------- files
Absent  == [kind |-> "absent"]
Corrupt == [kind |-> "corrupt"]    \* bytes that are not JSON
Partial == [kind |-> "partial"]    \* a file opened for writing, not yet dumped
JsonFile(data) == [kind |-> "json", data |-> data]

\* json.load of a file
read_json(file) == IF file.kind = "json" THEN Ok(file.data) ELSE Err

verify_passphrase(passphrase, encrypted_file) ==
    LET data == read_json(encrypted_file)
    IN IF ~data.ok THEN FALSE
       ELSE decrypt_full_entry_from_dict(data.val, passphrase).ok

\* The journal entry stored in file f (JournalEntry.model_dump).
EntryOf(f) == [id |-> f, content |-> 10 + f, timestamp |-> 100 + f]

\* encrypt_entry_to_dict: the content-only encryption of the Legacy format.
encrypt_entry_to_dict(content, passphrase, rnd) ==
    LET encrypted == encrypt_entry(content, passphrase, rnd)
    IN IF ~encrypted.ok THEN Err
       ELSE Ok([salt       |-> b64encode(encrypted.val.salt),
                nonce      |-> b64encode(encrypted.val.nonce),
                ciphertext |-> b64encode(encrypted.val.ciphertext)])

\* A Legacy envelope: the crypto fields of the encrypted content next to the
\* plaintext metadata of the entry.
LegacyEnvelope(f, passphrase, rnd) ==
    LET entry == EntryOf(f)
        enc   == encrypt_entry_to_dict([kind |-> "text", str |-> entry.content],
                                       passphrase, rnd).val
    IN [id         |-> entry.id,
        timestamp  |-> entry.timestamp,
        encrypted  |-> TRUE,
        salt       |-> enc.salt,
        nonce      |-> enc.nonce,
        ciphertext |-> enc.ciphertext]

\* The bytes os.urandom returns for a salt or a nonce.  Their freshness is not
\* modelled: opening an envelope reads the salt and nonce stored in it.
Urandom == "os.urandom"

\* The passphrase the journal was set up with.
AppPassphrase == "p1"

\* ------------------------------------------------------------------- state
VARIABLES
    files,        \* entries_dir/<f>.json : the record files
    tmps,         \* entries_dir/<f>.tmp  : the temp files of rotate_keys
    backups,      \* backup_dir/<f>.json
    pc,           \* position of the running rotate_keys call
    old_passphrase, new_passphrase, backup_dir,   \* its arguments
    entry_files,  \* list(entries_dir.glob("*.json"))
    sample,       \* entry_files[0], the file the old passphrase is tried on (0: none)
    idx,          \* position of the loops over entry_files
    rotated, failed, errors,
    new_encrypted_dict,
    result,       \* the RotationResult returned
    files0,       \* the record files when the call started
    calls,        \* rotate_keys calls that passed the passphrase check
    faults,       \* I/O errors raised so far
    attempts_file,  \* data_dir/auth_attempts.json
    now,            \* datetime.now(UTC), in minutes
    ticks,          \* times the clock advanced
    answer,         \* the last operation on the protector and what it returned
    recorded,       \* times of the failures reported since the last success
    callers,        \* the record_attempt calls running side by side
    audit_file,     \* the audit log: absent, or its lines
    audit_clock,    \* datetime.now(tz=UTC) of the audit log, one tick per event
    audit_answer,   \* what the last read of the audit log returned
    logged,         \* the entries written to the audit log, in order
    damaged,        \* numbers of the lines changed behind the back of the log
    writers,        \* the _write_entry calls running side by side
    open_line,      \* bytes at the end of the audit log with no newline yet
    read_answer,    \* the last get_entry call: what it read and what it returned
    journal_text,   \* the text given to obfuscate_pii, as its fragments
    sanitized,      \* what obfuscate_pii returned: (obfuscated_text, pii_map)
    restored,       \* what detokenize_pii returned for them
    common_passwords,   \* _COMMON_PASSWORDS
    strength_answer,    \* the last check_passphrase_strength call and its score
    breaker,        \* the CircuitBreaker object, once made
    cb_now,         \* time.time(), in seconds
    cb_ticks,       \* times the clock advanced
    cb_calls,       \* calls made through the breaker
    cb_answer,      \* the last call(): the state it met and what became of it
    cb_history,     \* failed calls in a row, and successes since the breaker left OPEN
    retry,          \* locals of the running retry_with_backoff call
    retry_trace,    \* what each invocation of func did, in order
    retry_slept,    \* the delays slept between attempts, in order
    retry_outcome,  \* what retry_with_backoff returned or raised
    session,            \* _session._passphrase: the cached passphrase, or None
    passphrase_marker,  \* whether the .passphrase_set marker file exists
    passphrase_hash,    \* cfg.passphrase_hash: the stored record, or None
    prompting,          \* the running get_passphrase call: its loop variable
    prompt_log,         \* every verification of a typed passphrase: when, and its result
    prompt_answer       \* what the last get_passphrase call returned or raised

rotVars == <<files, tmps, backups, pc, old_passphrase, new_passphrase,
             backup_dir, entry_files, sample, idx, rotated, failed, errors,
             new_encrypted_dict, result, files0, calls, faults>>

guardVars == <<attempts_file, now, ticks, answer, recorded>>

concVars == <<callers>>

auditVars == <<audit_file, audit_clock, audit_answer, logged, damaged>>

writerVars == <<writers, open_line>>

readVars == <<read_answer>>

piiVars == <<journal_text, sanitized, restored>>

strengthVars == <<common_passwords, strength_answer>>

breakerVars == <<breaker, cb_now, cb_ticks, cb_calls, cb_answer, cb_history>>

retryVars == <<retry, retry_trace, retry_slept, retry_outcome>>

promptVars == <<session, passphrase_marker, passphrase_hash, prompting,
                prompt_log, prompt_answer>>

vars == <<rotVars, guardVars, concVars, auditVars, writerVars, readVars,
          piiVars, strengthVars, breakerVars, retryVars, promptVars>>

\* What an operation on the journal leaves alone, and what an operation of
\* the protector leaves alone.
notRotVars == <<guardVars, concVars, auditVars, writerVars, readVars,
                piiVars, strengthVars, breakerVars, retryVars, promptVars>>
notGuardVars == <<rotVars, concVars, auditVars, writerVars, readVars,
                  piiVars, strengthVars, breakerVars, retryVars, promptVars>>
notProtectorVars == <<rotVars, auditVars, writerVars, readVars, piiVars,
                      strengthVars, breakerVars, retryVars, promptVars>>
notAuditVars == <<rotVars, guardVars, concVars, writerVars, readVars,
                  piiVars, strengthVars, breakerVars, retryVars, promptVars>>
notLogVars == <<rotVars, guardVars, concVars, readVars, piiVars,
                strengthVars, breakerVars, retryVars, promptVars>>
notReadVars == <<guardVars, concVars, auditVars, writerVars, piiVars,
                 strengthVars, breakerVars, retryVars, promptVars>>
notPiiVars == <<rotVars, guardVars, concVars, auditVars, writerVars,
                readVars, strengthVars, breakerVars, retryVars, promptVars>>
notStrengthVars == <<rotVars, guardVars, concVars, auditVars, writerVars,
                     readVars, piiVars, breakerVars, retryVars, promptVars>>
notBreakerVars == <<rotVars, guardVars, concVars, auditVars, writerVars,
                    readVars, piiVars, strengthVars, retryVars, promptVars>>
notRetryVars == <<rotVars, guardVars, concVars, auditVars, writerVars,
                  readVars, piiVars, strengthVars, breakerVars, promptVars>>
notPromptVars == <<rotVars, concVars, auditVars, writerVars, readVars,
                   piiVars, strengthVars, breakerVars, retryVars>>

NoResult == [returned |-> FALSE]

\* A result whose success flag is set whenever some record was rotated.
RotationResult_AnyRotated(success, entries_rotated, entries_failed, errs) ==
    [returned |-> TRUE, success |-> (entries_rotated > 0 \/ success),
     entries_rotated |-> entries_rotated,
     entries_failed |-> entries_failed, errors |-> errs]

RotationResult(success, entries_rotated, entries_failed, errs) ==
    [returned |-> TRUE, success |-> success, entries_rotated |-> entries_rotated,
     entries_failed |-> entries_failed, errors |-> errs]

NoDict == [id |-> 0]

\* A call is running.  A behaviour ends with the process when a call is
\* interrupted or raises.
InCall == pc \notin {"idle", "done", "raised", "killed"}

InitRotate ==
    /\ files = [f \in Names |-> Absent]
    /\ tmps = [f \in Names |-> Absent]
    /\ backups = [f \in Names |-> Absent]
    /\ pc = "idle"
    /\ old_passphrase = EmptyPass
    /\ new_passphrase = EmptyPass
    /\ backup_dir = FALSE
    /\ entry_files = <<>>
    /\ sample = 0
    /\ idx = 1
    /\ rotated = 0
    /\ failed = 0
    /\ errors = <<>>
    /\ new_encrypted_dict = NoDict
    /\ result = NoResult
    /\ files0 = files
    /\ calls = 0
    /\ faults = 0

callVars == <<old_passphrase, new_passphrase, backup_dir, sample, files0>>
loopVars == <<entry_files, idx, rotated, failed, errors, new_encrypted_dict, result>>

\* The locals of rotate_keys are gone once its caller goes on.
ForgetCall ==
    /\ pc' = "idle"
    /\ old_passphrase' = EmptyPass
    /\ new_passphrase' = EmptyPass
    /\ backup_dir' = FALSE
    /\ entry_files' = <<>>
    /\ sample' = 0
    /\ idx' = 1
    /\ rotated' = 0
    /\ failed' = 0
    /\ errors' = <<>>
    /\ new_encrypted_dict' = NoDict
    /\ result' = NoResult

\* journal.save_entry with encryption enabled: a new entry (a fresh UUID) is
\* written as a Full envelope.
save_entry(f, passphrase) ==
    /\ pc = "idle"
    /\ calls = 0
    /\ passphrase # EmptyPass
    /\ files[f] = Absent
    /\ files' = [files EXCEPT ![f] =
                   JsonFile(encrypt_full_entry_to_dict(EntryOf(f), passphrase, Urandom).val)]
    /\ files0' = files'
    /\ ForgetCall
    /\ UNCHANGED <<tmps, backups, calls, faults, notRotVars>>

\* A record file is damaged on disk (the tests write "not valid encrypted data").
corrupt_file(f) ==
    /\ pc = "idle"
    /\ calls = 0
    /\ files[f] # Absent
    /\ files[f] # Corrupt
    /\ files' = [files EXCEPT ![f] = Corrupt]
    /\ files0' = files'
    /\ ForgetCall
    /\ UNCHANGED <<tmps, backups, calls, faults, notRotVars>>

\* ---------------------------------------------------------------- rotate_keys
Perms(S) == {q \in [1..Cardinality(S) -> S] :
               \A i, j \in 1..Cardinality(S) : i # j => q[i] # q[j]}

ErrorMsg(f, msg) == [file |-> f, msg |-> msg]

\* A rotate_keys that goes on whatever the check of the old passphrase says.
OldPassphraseWorks_Unchecked(old, file) == TRUE

\* "if not verify_passphrase(old_passphrase, entry_files[0])"
OldPassphraseWorks(old, file) == verify_passphrase(old, file)

\* Entry: glob the record files, return at once when there are none; try the
\* old passphrase on the first file of the list, return when it fails.
rotate_keys(old, new, bdir) ==
    /\ pc = "idle"
    /\ calls < MaxCalls
    /\ old_passphrase' = old
    /\ new_passphrase' = new
    /\ backup_dir' = bdir
    /\ files0' = files
    /\ backups' = [f \in Names |-> Absent]
    /\ idx' = 1
    /\ rotated' = 0
    /\ failed' = 0
    /\ errors' = <<>>
    /\ new_encrypted_dict' = NoDict
    /\ \E order \in Perms({f \in Names : files[f] # Absent}) :
          /\ sample' = IF order = <<>> THEN 0 ELSE order[1]
          /\ IF order = <<>>
             THEN /\ pc' = "done"
                  /\ entry_files' = <<>>
                  /\ calls' = calls
                  /\ result' = RotationResult(TRUE, 0, 0,
                                  <<ErrorMsg(0, "No encrypted entries found")>>)
             ELSE IF ~OldPassphraseWorks(old, files[order[1]])
             THEN /\ pc' = "done"
                  /\ entry_files' = <<>>
                  /\ calls' = calls
                  /\ result' = RotationResult(FALSE, 0, 0,
                                  <<ErrorMsg(0, "Old passphrase is incorrect")>>)
             ELSE /\ pc' = IF bdir THEN "backup" ELSE "read"
                  /\ entry_files' = order
                  /\ calls' = calls + 1
                  /\ result' = NoResult
    /\ UNCHANGED <<files, tmps, faults, notRotVars>>

\* A backup loop that leaves out the last file of the list.
BackupCopy_SkipsLast ==
    /\ pc = "backup"
    /\ backups' = [f \in Names |->
                     IF \E i \in 1..(Len(entry_files) - 1) : entry_files[i] = f
                     THEN files[f] ELSE backups[f]]
    /\ pc' = "read"
    /\ UNCHANGED <<files, tmps, callVars, loopVars, calls, faults, notRotVars>>

\* The backup loop: shutil.copy2 of every listed record file into the backup
\* directory.
BackupCopy ==
    /\ pc = "backup"
    /\ backups' = [f \in Names |->
                     IF \E i \in 1..Len(entry_files) : entry_files[i] = f
                     THEN files[f] ELSE backups[f]]
    /\ pc' = "read"
    /\ UNCHANGED <<files, tmps, callVars, loopVars, calls, faults, notRotVars>>

\* shutil.copy2 raises (OSError): the exception leaves rotate_keys.
BackupRaise ==
    /\ faults < MaxFaults
    /\ faults' = faults + 1
    /\ pc = "backup"
    /\ pc' = "raised"
    /\ UNCHANGED <<files, tmps, backups, callVars, loopVars, calls, notRotVars>>

\* The end of one iteration of the loop: count, then the next file or return.
EndIteration(ok) ==
    LET f   == entry_files[idx]
        rot == IF ok THEN rotated + 1 ELSE rotated
        fl  == IF ok THEN failed ELSE failed + 1
        es  == IF ok THEN errors ELSE Append(errors, ErrorMsg(f, "failed"))
    IN /\ rotated' = rot
       /\ failed' = fl
       /\ errors' = es
       /\ new_encrypted_dict' = NoDict
       /\ IF idx = Len(entry_files)
          THEN /\ pc' = "done"
               /\ idx' = 1
               /\ entry_files' = <<>>
               /\ result' = RotationResult(fl = 0, rot, fl, es)
          ELSE /\ pc' = "read"
               /\ idx' = idx + 1
               /\ entry_files' = entry_files
               /\ result' = result

\* A re-encryption that keeps the id of the entry and loses the rest of it.
Reencrypted_IdOnly(file, old, new) ==
    LET data == read_json(file)
        dec  == IF data.ok THEN decrypt_full_entry_from_dict(data.val, old) ELSE Err
    IN IF dec.ok /\ "id" \in DOMAIN dec.val
       THEN encrypt_full_entry_to_dict([id |-> dec.val["id"]], new, Urandom)
       ELSE Err

\* The record read and re-encrypted: json.load, decrypt with the old
\* passphrase, encrypt with the new one.
Reencrypted(file, old, new) ==
    LET data == read_json(file)
        dec  == IF data.ok THEN decrypt_full_entry_from_dict(data.val, old) ELSE Err
    IN IF dec.ok THEN encrypt_full_entry_to_dict(dec.val, new, Urandom) ELSE Err

\* One record is read and re-encrypted and the temp file is written
\* (open(temp_file, "w"), json.dump, close).
WriteTemp ==
    /\ pc = "read"
    /\ LET enc == Reencrypted(files[entry_files[idx]], old_passphrase, new_passphrase)
       IN IF enc.ok
          THEN /\ new_encrypted_dict' = enc.val
               /\ tmps' = [tmps EXCEPT ![entry_files[idx]] = JsonFile(enc.val)]
               /\ pc' = "replace"
               /\ UNCHANGED <<entry_files, idx, rotated, failed, errors, result>>
          ELSE /\ EndIteration(FALSE)
               /\ tmps' = tmps
    /\ UNCHANGED <<files, backups, callVars, calls, faults, notRotVars>>

\* The record is re-encrypted, but open(temp_file, "w") raises: no temp file
\* is created.
OpenTempFails ==
    /\ faults < MaxFaults
    /\ faults' = faults + 1
    /\ pc = "read"
    /\ Reencrypted(files[entry_files[idx]], old_passphrase, new_passphrase).ok
    /\ EndIteration(FALSE)
    /\ UNCHANGED <<files, tmps, backups, callVars, calls, notRotVars>>

\* The temp file is opened, but json.dump raises (disk full): the temp file
\* stays, incomplete.
DumpTempFails ==
    /\ faults < MaxFaults
    /\ faults' = faults + 1
    /\ pc = "read"
    /\ Reencrypted(files[entry_files[idx]], old_passphrase, new_passphrase).ok
    /\ tmps' = [tmps EXCEPT ![entry_files[idx]] = Partial]
    /\ EndIteration(FALSE)
    /\ UNCHANGED <<files, backups, callVars, calls, notRotVars>>

\* A replace that removes the temp file and leaves the record as it was.
ReplaceRecord_DropsTemp ==
    /\ pc = "replace"
    /\ tmps' = [tmps EXCEPT ![entry_files[idx]] = Absent]
    /\ EndIteration(TRUE)
    /\ UNCHANGED <<files, backups, callVars, calls, faults, notRotVars>>

\* temp_file.replace(entry_file): an atomic rename.
ReplaceRecord ==
    /\ pc = "replace"
    /\ files' = [files EXCEPT ![entry_files[idx]] = tmps[entry_files[idx]]]
    /\ tmps' = [tmps EXCEPT ![entry_files[idx]] = Absent]
    /\ EndIteration(TRUE)
    /\ UNCHANGED <<backups, callVars, calls, faults, notRotVars>>

\* temp_file.replace raises: the record and the temp file both stay.
ReplaceFails ==
    /\ faults < MaxFaults
    /\ faults' = faults + 1
    /\ pc = "replace"
    /\ EndIteration(FALSE)
    /\ UNCHANGED <<files, tmps, backups, callVars, calls, notRotVars>>

\* The process is interrupted between two steps of the call: its locals are
\* lost, the directories stay as they are.
Interrupt ==
    /\ InCall
    /\ pc' = "killed"
    /\ entry_files' = <<>>
    /\ idx' = 1
    /\ rotated' = 0
    /\ failed' = 0
    /\ errors' = <<>>
    /\ new_encrypted_dict' = NoDict
    /\ result' = NoResult
    /\ UNCHANGED <<files, tmps, backups, callVars, calls, faults, notRotVars>>

\* The caller has read the result and goes on: the locals of the call are
\* gone, and so is the name of its backup directory (cli.py makes a new one,
\* named by the time, for each call).
ReturnToCaller ==
    /\ pc = "done"
    /\ ForgetCall
    /\ files0' = files
    /\ backups' = [f \in Names |-> Absent]
    /\ UNCHANGED <<files, tmps, calls, faults, notRotVars>>

NextRotate ==
    \/ \E f \in Names : save_entry(f, AppPassphrase)
    \/ \E f \in Names : corrupt_file(f)
    \/ \E old, new \in Passphrases, bdir \in BOOLEAN : rotate_keys(old, new, bdir)
    \/ BackupCopy
    \/ BackupRaise
    \/ WriteTemp
    \/ OpenTempFails
    \/ DumpTempFails
    \/ ReplaceRecord
    \/ ReplaceFails
    \/ Interrupt
    \/ ReturnToCaller

\* ====================================== BruteForceProtector (passphrase.py)
\* Times are counted in minutes.
max_attempts_per_window == 5
window_minutes == 15
lockout_threshold == 10
lockout_hours == 24

timedelta(hours, minutes) == hours * 60 + minutes

\* The clock is seen to advance by a minute, by the window or by the lockout
\* period.
ClockSteps == {1, timedelta(0, window_minutes), timedelta(lockout_hours, 0)}

AttemptTypes == {"decrypt"}

FailedAttempt(timestamp, attempt_type, ip_address) ==
    [timestamp |-> timestamp, attempt_type |-> attempt_type,
     ip_address |-> ip_address]

\* json.dump(..., default=str) writes a datetime as its str();
\* datetime.fromisoformat reads it back.
str_datetime(t) == <<"datetime", t>>
fromisoformat(s) == s[2]

\* strftime('%H:%M'): the hour and minute of the day.
strftime_HM(t) == <<(t \div 60) % 24, t % 60>>

asdict(a) ==
    [timestamp |-> str_datetime(a.timestamp), attempt_type |-> a.attempt_type,
     ip_address |-> a.ip_address]

\* A load that cannot read back what was saved (json.load or fromisoformat
\* raises, and the exception is swallowed).
load_attempts_Unreadable(file) == <<>>

load_attempts(file) ==
    IF file.kind # "json"
    THEN <<>>
    ELSE [i \in 1..Len(file.data) |->
            FailedAttempt(fromisoformat(file.data[i].timestamp),
                          file.data[i].attempt_type, file.data[i].ip_address)]

save_attempts(attempts) ==
    JsonFile([i \in 1..Len(attempts) |-> asdict(attempts[i])])

\* [a for a in attempts if a.timestamp >= start]
recent_attempts(attempts, start) ==
    SelectSeq(attempts, LAMBDA a : a.timestamp >= start)

NoAnswer == [op |-> "none"]

InitGuard ==
    /\ attempts_file = Absent
    /\ now = 0
    /\ ticks = 0
    /\ answer = NoAnswer
    /\ recorded = <<>>

\* Time passes between two operations.
Tick(d) ==
    /\ ticks < MaxTicks
    /\ ticks' = ticks + 1
    /\ now' = now + d
    /\ answer' = NoAnswer
    /\ UNCHANGED <<attempts_file, recorded, notGuardVars>>

\* reset(): the attempts file is removed if it exists.
reset ==
    /\ attempts_file' = Absent
    /\ recorded' = <<>>
    /\ answer' = NoAnswer
    /\ UNCHANGED <<now, ticks, notGuardVars>>

\* What is kept of a record_attempt call: its argument and, for a success,
\* how many failures had been reported before it.
Recorded(success, cleared) ==
    IF success
    THEN [op |-> "record_attempt", success |-> TRUE, cleared |-> cleared]
    ELSE [op |-> "record_attempt", success |-> FALSE]

\* A record_attempt that leaves the attempts file alone on a success.
record_attempt_KeepsFile(success, attempt_type) ==
    /\ IF success
       THEN /\ attempts_file' = attempts_file
            /\ recorded' = <<>>
       ELSE LET attempts == Append(load_attempts(attempts_file),
                                   FailedAttempt(now, attempt_type, "local"))
            IN /\ Len(attempts) <= MaxAttempts
               /\ attempts_file' = save_attempts(attempts)
               /\ recorded' = Append(recorded, now)
    /\ answer' = Recorded(success, Len(recorded))
    /\ UNCHANGED <<now, ticks, notGuardVars>>

record_attempt(success, attempt_type) ==
    /\ IF success
       THEN /\ attempts_file' = Absent
            /\ recorded' = <<>>
       ELSE LET attempts == Append(load_attempts(attempts_file),
                                   FailedAttempt(now, attempt_type, "local"))
            IN /\ Len(attempts) <= MaxAttempts
               /\ attempts_file' = save_attempts(attempts)
               /\ recorded' = Append(recorded, now)
    /\ answer' = Recorded(success, Len(recorded))
    /\ UNCHANGED <<now, ticks, notGuardVars>>

\* A check that counts every attempt of the file, whatever its age.
RateLimitAnswer_CountsAll(attempts, t) ==
    IF Len(attempts) >= max_attempts_per_window
    THEN [op |-> "check_rate_limit", allowed |-> FALSE, count |-> Len(attempts),
          next_attempt |-> strftime_HM(attempts[Len(attempts)].timestamp
                                       + timedelta(0, window_minutes))]
    ELSE [op |-> "check_rate_limit", allowed |-> TRUE]

\* What check_rate_limit returns at time t with these attempts loaded.
RateLimitAnswer(attempts, t) ==
    LET window_start == t - timedelta(0, window_minutes)
        recent == recent_attempts(attempts, window_start)
    IN IF attempts = <<>>
       THEN [op |-> "check_rate_limit", allowed |-> TRUE]
       ELSE IF Len(recent) >= max_attempts_per_window
            THEN [op |-> "check_rate_limit", allowed |-> FALSE,
                  count |-> Len(recent),
                  next_attempt |-> strftime_HM(attempts[Len(attempts)].timestamp
                                               + timedelta(0, window_minutes))]
            ELSE [op |-> "check_rate_limit", allowed |-> TRUE]

check_rate_limit ==
    /\ answer' = RateLimitAnswer(load_attempts(attempts_file), now)
    /\ UNCHANGED <<attempts_file, now, ticks, recorded, notGuardVars>>

\* A lockout check that counts every attempt of the file, whatever its age.
LockoutAnswer_CountsAll(attempts, t) ==
    IF Len(attempts) >= lockout_threshold
    THEN [op |-> "is_locked_out", locked |-> TRUE,
          unlock_time |-> attempts[1].timestamp + timedelta(lockout_hours, 0)]
    ELSE [op |-> "is_locked_out", locked |-> FALSE]

\* What is_locked_out returns at time t with these attempts loaded.
LockoutAnswer(attempts, t) ==
    LET lockout_window == t - timedelta(lockout_hours, 0)
        recent == recent_attempts(attempts, lockout_window)
    IN IF attempts = <<>>
       THEN [op |-> "is_locked_out", locked |-> FALSE]
       ELSE IF Len(recent) >= lockout_threshold
            THEN [op |-> "is_locked_out", locked |-> TRUE,
                  unlock_time |-> attempts[1].timestamp + timedelta(lockout_hours, 0)]
            ELSE [op |-> "is_locked_out", locked |-> FALSE]

is_locked_out ==
    /\ answer' = LockoutAnswer(load_attempts(attempts_file), now)
    /\ UNCHANGED <<attempts_file, now, ticks, recorded, notGuardVars>>

Min(a, b) == IF a < b THEN a ELSE b

RECURSIVE Pow2(_)
Pow2(n) == IF n = 0 THEN 1 ELSE 2 * Pow2(n - 1)

\* What get_delay_seconds returns at time t with these attempts loaded.
DelayAnswer(attempts, t) ==
    LET recent == recent_attempts(attempts, t - timedelta(0, window_minutes))
    IN [op |-> "get_delay_seconds",
        delay |-> IF Len(recent) < 2 THEN 0
                  ELSE Min(Pow2(Len(recent) - 2), 60)]

get_delay_seconds ==
    /\ answer' = DelayAnswer(load_attempts(attempts_file), now)
    /\ UNCHANGED <<attempts_file, now, ticks, recorded, notGuardVars>>

get_recent_attempts(hours) ==
    /\ answer' = [op |-> "get_recent_attempts",
                  attempts |-> recent_attempts(load_attempts(attempts_file),
                                               now - timedelta(hours, 0))]
    /\ UNCHANGED <<attempts_file, now, ticks, recorded, notGuardVars>>

\* BruteForceProtector(data_dir) after a restart: a new instance on the same
\* data directory.  An instance keeps nothing but the path of the attempts
\* file and the four limits.
BruteForceProtector ==
    /\ answer' = [op |-> "BruteForceProtector"]
    /\ UNCHANGED <<attempts_file, now, ticks, recorded, notGuardVars>>

NextGuard ==
    \/ \E d \in ClockSteps : Tick(d)
    \/ reset
    \/ \E success \in BOOLEAN, t \in AttemptTypes : record_attempt(success, t)
    \/ check_rate_limit
    \/ is_locked_out
    \/ get_delay_seconds
    \/ get_recent_attempts(lockout_hours)
    \/ BruteForceProtector

\* ------------------------------- record_attempt called from several threads
\* record_attempt(success=False) takes no lock: a thread loads the attempts
\* file and appends to its own list, then saves that list.
Callers == 1..NumCallers

Idle == [pc |-> "idle"]

InitConc == callers = [p \in Callers |-> Idle]

\* attempts = self._load_attempts(); attempts.append(FailedAttempt(now, ...))
record_attempt_load(p, attempt_type) ==
    /\ callers[p] = Idle
    /\ Len(recorded) + Cardinality({q \in Callers : callers[q] # Idle}) < MaxConcCalls
    /\ callers' = [callers EXCEPT ![p] =
                     [pc |-> "loaded",
                      attempts |-> Append(load_attempts(attempts_file),
                                          FailedAttempt(now, attempt_type, "local"))]]
    /\ answer' = NoAnswer
    /\ UNCHANGED <<attempts_file, now, ticks, recorded, notProtectorVars>>

\* self._save_attempts(attempts), and the call returns.
record_attempt_save(p) ==
    /\ callers[p] # Idle
    /\ attempts_file' = save_attempts(callers[p].attempts)
    /\ recorded' = Append(recorded, callers[p].attempts[Len(callers[p].attempts)].timestamp)
    /\ callers' = [callers EXCEPT ![p] = Idle]
    /\ answer' = Recorded(FALSE, 0)
    /\ UNCHANGED <<now, ticks, notProtectorVars>>

NextConc ==
    \/ \E d \in ClockSteps : Tick(d)
    \/ \E p \in Callers, t \in AttemptTypes : record_attempt_load(p, t)
    \/ \E p \in Callers : record_attempt_save(p)

\* ============================================ SecurityAuditLog (audit.py)
AuditEventTypes == {"security_event", "data_access"}
AuditDetails == {"d1"}

\* datetime.isoformat() and datetime.fromisoformat(): a text that is not an
\* ISO timestamp makes fromisoformat raise ValueError.
isoformat(t) == <<"iso", t>>
ScrambledTimestamp(t) == <<"scrambled", t>>
datetime_fromisoformat(str) == IF str[1] = "iso" THEN Ok(str[2]) ELSE Err

\* .date() of a timestamp: two ticks of the audit clock make a day.
DateOf(t) == t \div 2

None == [none |-> TRUE]
Some(v) == [none |-> FALSE, v |-> v]

\* The texts of a line: json.dumps of a dict, json.dumps of a value that is
\* no dict, or bytes that are no JSON.
DictLine(entry) == [kind |-> "json", value |-> [isdict |-> TRUE, d |-> entry]]
NotObjectLine == [kind |-> "json", value |-> [isdict |-> FALSE]]
GarbageLine == [kind |-> "garbage"]

json_loads_line(line) == IF line.kind = "json" THEN Ok(line.value) ELSE Err

LinesFile(lines) == [kind |-> "lines", lines |-> lines]
LinesOf(file) == IF file.kind = "lines" THEN file.lines ELSE <<>>

NoAuditAnswer == [op |-> "none"]

InitAudit ==
    /\ audit_file = Absent
    /\ audit_clock = 0
    /\ audit_answer = NoAuditAnswer
    /\ logged = <<>>
    /\ damaged = {}

\* SecurityAuditLog(log_path): the log file is created if it does not exist.
SecurityAuditLog ==
    /\ audit_file' = LinesFile(LinesOf(audit_file))
    /\ audit_answer' = NoAuditAnswer
    /\ UNCHANGED <<audit_clock, logged, damaged, notAuditVars>>

\* The entry _write_entry builds.
AuditEntry(t, event_type, details) ==
    [timestamp |-> isoformat(t), event_type |-> event_type, details |-> details]

\* A _write_entry that opens the log with mode "w".
write_entry_Truncates(event_type, details) ==
    /\ audit_clock < MaxLines
    /\ audit_file' = LinesFile(<<DictLine(AuditEntry(audit_clock, event_type, details))>>)
    /\ logged' = Append(logged, AuditEntry(audit_clock, event_type, details))
    /\ audit_clock' = audit_clock + 1
    /\ audit_answer' = NoAuditAnswer
    /\ UNCHANGED <<damaged, notAuditVars>>

\* _write_entry, called by log_model_inference, log_data_access and
\* log_security_event: one JSON line appended to the log.
write_entry(event_type, details) ==
    /\ audit_clock < MaxLines
    /\ audit_file' = LinesFile(Append(LinesOf(audit_file),
                          DictLine(AuditEntry(audit_clock, event_type, details))))
    /\ logged' = Append(logged, AuditEntry(audit_clock, event_type, details))
    /\ audit_clock' = audit_clock + 1
    /\ audit_answer' = NoAuditAnswer
    /\ UNCHANGED <<damaged, notAuditVars>>

\* What becomes of a line that is changed behind the back of the log.
DamageKinds == {"garbage", "not_object", "no_timestamp", "bad_timestamp"}

DamagedLine(line, how) ==
    CASE how = "garbage" -> GarbageLine
      [] how = "not_object" -> NotObjectLine
      [] how = "no_timestamp" ->
            DictLine([event_type |-> line.value.d.event_type,
                      details |-> line.value.d.details])
      [] how = "bad_timestamp" ->
            DictLine([line.value.d EXCEPT
                        !.timestamp = ScrambledTimestamp(line.value.d.timestamp[2])])

IsEntryLine(line) ==
    /\ line.kind = "json"
    /\ line.value.isdict
    /\ "timestamp" \in DOMAIN line.value.d
    /\ line.value.d.timestamp[1] = "iso"

\* A line of the log file is overwritten by something else.
damage_line(k, how) ==
    /\ k \in 1..Len(LinesOf(audit_file))
    /\ k \notin damaged
    /\ Cardinality(damaged) < MaxDamage
    /\ IsEntryLine(audit_file.lines[k])
    /\ "event_type" \in DOMAIN audit_file.lines[k].value.d
    /\ audit_file' = LinesFile([audit_file.lines EXCEPT
                                  ![k] = DamagedLine(audit_file.lines[k], how)])
    /\ damaged' = damaged \cup {k}
    /\ audit_answer' = NoAuditAnswer
    /\ UNCHANGED <<audit_clock, logged, notAuditVars>>

\* The log file is removed.
remove_log ==
    /\ audit_file # Absent
    /\ audit_file' = Absent
    /\ logged' = <<>>
    /\ damaged' = {}
    /\ audit_answer' = NoAuditAnswer
    /\ UNCHANGED <<audit_clock, notAuditVars>>

\* The body of the loop of read_entries for one line: the entry is kept, the
\* line is skipped (JSONDecodeError and KeyError are caught, a filter says
\* continue), or an exception that is not caught leaves read_entries.
ReadLine(line, start_date, end_date, event_type) ==
    LET parsed == json_loads_line(line)
    IN IF ~parsed.ok THEN [do |-> "skip"]
       ELSE IF ~parsed.val.isdict THEN [do |-> "raise", error |-> "TypeError"]
       ELSE IF "timestamp" \notin DOMAIN parsed.val.d THEN [do |-> "skip"]
       ELSE LET entry == parsed.val.d
                when == datetime_fromisoformat(entry.timestamp)
            IN IF ~when.ok THEN [do |-> "raise", error |-> "ValueError"]
               ELSE IF ~start_date.none /\ DateOf(when.val) < start_date.v
                    THEN [do |-> "skip"]
               ELSE IF ~end_date.none /\ DateOf(when.val) > end_date.v
                    THEN [do |-> "skip"]
               ELSE IF /\ ~event_type.none
                       /\ \/ "event_type" \notin DOMAIN entry
                          \/ entry.event_type # event_type.v
                    THEN [do |-> "skip"]
               ELSE [do |-> "keep", entry |-> entry]

RECURSIVE ReadFrom(_, _, _, _, _, _)
ReadFrom(lines, i, entries, start_date, end_date, event_type) ==
    IF i > Len(lines)
    THEN [op |-> "read_entries", raised |-> FALSE, entries |-> entries]
    ELSE LET r == ReadLine(lines[i], start_date, end_date, event_type)
         IN IF r.do = "raise"
            THEN [op |-> "read_entries", raised |-> TRUE, error |-> r.error]
            ELSE ReadFrom(lines, i + 1,
                          IF r.do = "keep" THEN Append(entries, r.entry) ELSE entries,
                          start_date, end_date, event_type)

\* What read_entries returns on this file.
ReadAnswer(file, start_date, end_date, event_type) ==
    IF file.kind # "lines"
    THEN [op |-> "read_entries", raised |-> FALSE, entries |-> <<>>]
    ELSE ReadFrom(file.lines, 1, <<>>, start_date, end_date, event_type)

read_entries(start_date, end_date, event_type) ==
    /\ audit_answer' = ReadAnswer(audit_file, start_date, end_date, event_type)
    /\ UNCHANGED <<audit_file, audit_clock, logged, damaged, notAuditVars>>

\* The filters read_entries is called with.
ReadFilters ==
    {<<None, None, None>>, <<Some(1), None, None>>, <<None, Some(1), None>>}
    \cup {<<None, None, Some(t)>> : t \in AuditEventTypes}

NextAudit ==
    \/ SecurityAuditLog
    \/ \E t \in AuditEventTypes, d \in AuditDetails : write_entry(t, d)
    \/ \E k \in 1..MaxLines, how \in DamageKinds : damage_line(k, how)
    \/ remove_log
    \/ \E f \in ReadFilters : read_entries(f[1], f[2], f[3])

\* ================================ the encrypted audit ledger (audit.py API)
\* log_event_encrypted, verify_audit_log_integrity and decrypt_audit_log are
\* imported from companion.security.audit by cli.py and by the tests; they
\* are modelled from their contract: one JSON line per event,
\* {timestamp, event_type, encrypted_event, integrity_hash}.
LedgerPassphrases == {"p1", "p2"}

\* The integrity tag: a keyed hash, under a key derived from the passphrase,
\* of the other fields of the line.
IntegrityHash(passphrase, timestamp, event_type, encrypted_event) ==
    [mac_key |-> passphrase, over |-> <<timestamp, event_type, encrypted_event>>]

LedgerLine(t, event_type, details, passphrase) ==
    LET encrypted_event ==
            b64encode(encrypt_entry(json_dumps([content |-> details]),
                                    passphrase, Urandom).val)
    IN DictLine([timestamp |-> isoformat(t),
                 event_type |-> event_type,
                 encrypted_event |-> encrypted_event,
                 integrity_hash |-> IntegrityHash(passphrase, isoformat(t),
                                                  event_type, encrypted_event)])

\* The event a ledger line stands for, as decrypt_audit_log returns it.
LedgerEvent(t, event_type, details) ==
    [timestamp |-> isoformat(t), event_type |-> event_type, details |-> details]

log_event_encrypted(event_type, details, passphrase) ==
    /\ audit_clock < MaxLines
    /\ passphrase # EmptyPass
    /\ audit_file' = LinesFile(Append(LinesOf(audit_file),
                          LedgerLine(audit_clock, event_type, details, passphrase)))
    /\ logged' = Append(logged, LedgerEvent(audit_clock, event_type, details))
    /\ audit_clock' = audit_clock + 1
    /\ audit_answer' = NoAuditAnswer
    /\ UNCHANGED <<damaged, notAuditVars>>

LedgerDamageKinds == {"payload", "hash", "garbage"}

\* A ledger line with a bit of its encrypted event or of its integrity hash
\* flipped, or made unparsable.
DamagedLedgerLine(line, how) ==
    CASE how = "garbage" -> GarbageLine
      [] how = "payload" ->
            DictLine([line.value.d EXCEPT
                !.encrypted_event = b64encode(
                    [b64decode(@) EXCEPT !.ciphertext.nonce = "flipped"])])
      [] how = "hash" ->
            DictLine([line.value.d EXCEPT !.integrity_hash.mac_key = "flipped"])

damage_ledger_line(k, how) ==
    /\ k \in 1..Len(LinesOf(audit_file))
    /\ k \notin damaged
    /\ Cardinality(damaged) < MaxDamage
    /\ audit_file' = LinesFile([audit_file.lines EXCEPT
                                  ![k] = DamagedLedgerLine(audit_file.lines[k], how)])
    /\ damaged' = damaged \cup {k}
    /\ audit_answer' = NoAuditAnswer
    /\ UNCHANGED <<audit_clock, logged, notAuditVars>>

LedgerKeys == {"timestamp", "event_type", "encrypted_event", "integrity_hash"}

\* A verify that checks that a line has its fields and not its integrity hash.
LineIntact_FieldsOnly(line, passphrase) ==
    LET parsed == json_loads_line(line)
    IN /\ parsed.ok
       /\ parsed.val.isdict
       /\ LedgerKeys \subseteq DOMAIN parsed.val.d

\* The line parses, has its fields, and its integrity hash is the one
\* recomputed from them with the passphrase.
LineIntact(line, passphrase) ==
    LET parsed == json_loads_line(line)
    IN /\ parsed.ok
       /\ parsed.val.isdict
       /\ LedgerKeys \subseteq DOMAIN parsed.val.d
       /\ parsed.val.d.integrity_hash
             = IntegrityHash(passphrase, parsed.val.d.timestamp,
                             parsed.val.d.event_type, parsed.val.d.encrypted_event)

\* verify_audit_log_integrity: (ok, the lines flagged, by 1-based number).
VerifyAnswer(file, passphrase) ==
    LET lines == LinesOf(file)
        flagged == SelectSeq([k \in 1..Len(lines) |-> k],
                             LAMBDA k : ~LineIntact(lines[k], passphrase))
    IN [op |-> "verify", passphrase |-> passphrase,
        ok |-> flagged = <<>>, tampered |-> flagged]

verify_audit_log_integrity(passphrase) ==
    /\ audit_answer' = VerifyAnswer(audit_file, passphrase)
    /\ UNCHANGED <<audit_file, audit_clock, logged, damaged, notAuditVars>>

\* The event of one line, if the line parses and decrypts.
DecryptLine(line, passphrase) ==
    LET parsed == json_loads_line(line)
    IN IF ~(parsed.ok /\ parsed.val.isdict /\ LedgerKeys \subseteq DOMAIN parsed.val.d)
       THEN Err
       ELSE LET d == parsed.val.d
                plain == decrypt_entry(b64decode(d.encrypted_event), passphrase)
                payload == IF plain.ok THEN json_loads(plain.val) ELSE Err
            IN IF ~payload.ok \/ ~datetime_fromisoformat(d.timestamp).ok THEN Err
               ELSE Ok([timestamp |-> d.timestamp, event_type |-> d.event_type,
                        details |-> payload.val["content"]])

\* decrypt_audit_log: the events of the lines that decrypt, in order.
DecryptAnswer(file, passphrase) ==
    LET lines == LinesOf(file)
        good == SelectSeq([k \in 1..Len(lines) |-> k],
                          LAMBDA k : DecryptLine(lines[k], passphrase).ok)
    IN [op |-> "decrypt", passphrase |-> passphrase,
        events |-> [i \in 1..Len(good) |-> DecryptLine(lines[good[i]], passphrase).val]]

decrypt_audit_log(passphrase) ==
    /\ audit_answer' = DecryptAnswer(audit_file, passphrase)
    /\ UNCHANGED <<audit_file, audit_clock, logged, damaged, notAuditVars>>

NextLedger ==
    \/ \E t \in AuditEventTypes, d \in AuditDetails :
          log_event_encrypted(t, d, AppPassphrase)
    \/ \E k \in 1..MaxLines, how \in LedgerDamageKinds : damage_ledger_line(k, how)
    \/ remove_log
    \/ \E p \in LedgerPassphrases : verify_audit_log_integrity(p)
    \/ \E p \in LedgerPassphrases : decrypt_audit_log(p)

\* ================================== _write_entry calls running side by side
\* _write_entry takes no lock.  Each call opens the log for appending, puts
\* the line in the buffer of its own file object, and flush() hands it to the
\* operating system with write(): in one piece, or, when a write is short, in
\* two.  Each write() lands at the end of the file as it is then.
Writers == 1..NumWriters

InitWriters ==
    /\ writers = [w \in Writers |-> Idle]
    /\ open_line = <<>>

\* The bytes of json.dumps(entry) + "\n" as two pieces; the newline is in the
\* second.
FirstPart(entry) == [piece |-> "head", of |-> entry]
LastPart(entry) == [piece |-> "tail", of |-> entry]

\* The line the pieces between two newlines make.
LineOfPieces(pieces) ==
    IF Len(pieces) = 2 /\ pieces[1].piece = "head" /\ pieces[2] = LastPart(pieces[1].of)
    THEN DictLine(pieces[1].of)
    ELSE [kind |-> "interleaved", pieces |-> pieces]

\* write(fd, pieces) on a file opened with mode "a".
AppendBytes(pieces) ==
    LET stream == open_line \o pieces
    IN IF stream[Len(stream)].piece = "tail"
       THEN /\ audit_file' = LinesFile(Append(LinesOf(audit_file), LineOfPieces(stream)))
            /\ open_line' = <<>>
       ELSE /\ audit_file' = LinesFile(LinesOf(audit_file))
            /\ open_line' = stream

\* _write_entry up to f.write(): the entry is built and buffered.
write_entry_open(w, event_type, details) ==
    /\ writers[w] = Idle
    /\ audit_clock < MaxLines
    /\ writers' = [writers EXCEPT ![w] =
                      [pc |-> "buffered",
                       entry |-> AuditEntry(audit_clock, event_type, details)]]
    /\ audit_clock' = audit_clock + 1
    /\ UNCHANGED <<audit_file, audit_answer, logged, damaged, open_line, notLogVars>>

\* f.flush(): the whole line goes out in one write().
write_entry_flush(w) ==
    /\ writers[w].pc = "buffered"
    /\ AppendBytes(<<FirstPart(writers[w].entry), LastPart(writers[w].entry)>>)
    /\ logged' = Append(logged, writers[w].entry)
    /\ writers' = [writers EXCEPT ![w] = Idle]
    /\ UNCHANGED <<audit_clock, audit_answer, damaged, notLogVars>>

\* f.flush(): a short write() takes the first part of the line only.
write_entry_flush_short(w) ==
    /\ writers[w].pc = "buffered"
    /\ AppendBytes(<<FirstPart(writers[w].entry)>>)
    /\ writers' = [writers EXCEPT ![w].pc = "rest"]
    /\ UNCHANGED <<audit_clock, audit_answer, logged, damaged, notLogVars>>

\* f.flush(): the write() of the rest of the line; _write_entry returns.
write_entry_flush_rest(w) ==
    /\ writers[w].pc = "rest"
    /\ AppendBytes(<<LastPart(writers[w].entry)>>)
    /\ logged' = Append(logged, writers[w].entry)
    /\ writers' = [writers EXCEPT ![w] = Idle]
    /\ UNCHANGED <<audit_clock, audit_answer, damaged, notLogVars>>

NextWriters ==
    \/ \E w \in Writers, t \in AuditEventTypes, d \in AuditDetails :
          write_entry_open(w, t, d)
    \/ \E w \in Writers : write_entry_flush(w)
    \/ \E w \in Writers : write_entry_flush_short(w)
    \/ \E w \in Writers : write_entry_flush_rest(w)

\* ==================================================== get_entry (journal.py)
\* The plaintext metadata an old content-only envelope can carry beside the
\* crypto fields.
LegacyMetadata == {"timestamp", "sentiment"}

\* A journal entry that has a sentiment as well.
AnalysedEntryOf(f) ==
    [id |-> f, content |-> 10 + f, timestamp |-> 100 + f, sentiment |-> 200 + f]

\* The content-only envelope of entry f that keeps the metadata `meta` in
\* plaintext.
LegacyEnvelopeWith(f, passphrase, rnd, meta) ==
    LET entry == AnalysedEntryOf(f)
        enc   == encrypt_entry_to_dict([kind |-> "text", str |-> entry.content],
                                       passphrase, rnd).val
        keys  == {"id", "encrypted"} \cup CryptoKeys \cup meta
    IN [k \in keys |->
          CASE k = "encrypted" -> TRUE
            [] k \in CryptoKeys -> enc[k]
            [] OTHER -> entry[k]]

\* decrypt_entry_from_dict: the text the crypto fields of `data` hold.
decrypt_entry_from_dict(data, passphrase) ==
    IF ~(CryptoKeys \subseteq DOMAIN data) THEN Err
    ELSE decrypt_entry([salt       |-> b64decode(data["salt"]),
                        nonce      |-> b64decode(data["nonce"]),
                        ciphertext |-> b64decode(data["ciphertext"])], passphrase)

\* A decrypted plaintext as the str Python hands back: the text itself, or
\* the JSON text as a string.
StrOf(plain) == IF plain.kind = "text" THEN plain.str ELSE <<"str", plain>>

_is_encrypted(entry_data) == CryptoKeys \subseteq DOMAIN entry_data

_is_legacy_encryption(entry_data) ==
    LET has_encryption == _is_encrypted(entry_data)
        has_plaintext_metadata ==
            "timestamp" \in DOMAIN entry_data \/ "themes" \in DOMAIN entry_data
    IN has_encryption /\ has_plaintext_metadata

\* JournalEntry(**entry_data): content is required, unknown keys are ignored.
EntryFields == {"id", "content", "timestamp", "sentiment"}

JournalEntry(entry_data) ==
    IF "content" \notin DOMAIN entry_data THEN Err
    ELSE Ok([k \in DOMAIN entry_data \cap EntryFields |-> entry_data[k]])

\* entry_data after the Legacy branch of get_entry: content set, the crypto
\* fields and the encrypted flag popped.
LegacyReassembled(entry_data, content) ==
    [k \in (DOMAIN entry_data \ (CryptoKeys \cup {"encrypted"})) \cup {"content"} |->
        IF k = "content" THEN content ELSE entry_data[k]]

NotFound == [found |-> FALSE, raised |-> FALSE]
Raised   == [found |-> FALSE, raised |-> TRUE]
Found(entry) == [found |-> TRUE, raised |-> FALSE, entry |-> entry]

\* What get_entry returns for this file and passphrase: None, a ValueError,
\* or the entry.
GetEntry(file, passphrase) ==
    IF file = Absent THEN NotFound
    ELSE LET data == read_json(file)
         IN IF ~data.ok THEN Raised
            ELSE LET entry_data ==
                        IF ~_is_encrypted(data.val) THEN data
                        ELSE IF passphrase = EmptyPass THEN Err
                        ELSE IF _is_legacy_encryption(data.val)
                        THEN LET content == decrypt_entry_from_dict(data.val, passphrase)
                             IN IF ~content.ok THEN Err
                                ELSE Ok(LegacyReassembled(data.val, StrOf(content.val)))
                        ELSE decrypt_full_entry_from_dict(data.val, passphrase)
                     entry == IF entry_data.ok THEN JournalEntry(entry_data.val) ELSE Err
                 IN IF entry.ok THEN Found(entry.val) ELSE Raised

NoRead == [op |-> "none"]

InitRead == read_answer = NoRead

\* A record file left by an older version: content-only encryption.
write_legacy_entry(f, passphrase, meta) ==
    /\ pc = "idle"
    /\ calls = 0
    /\ passphrase # EmptyPass
    /\ files[f] = Absent
    /\ files' = [files EXCEPT ![f] =
                   JsonFile(LegacyEnvelopeWith(f, passphrase, Urandom, meta))]
    /\ files0' = files'
    /\ ForgetCall
    /\ UNCHANGED <<tmps, backups, calls, faults, notRotVars>>

get_entry(entry_id, passphrase) ==
    /\ read_answer' = [op |-> "get_entry", file |-> files[entry_id],
                       passphrase |-> passphrase,
                       returned |-> GetEntry(files[entry_id], passphrase)]
    /\ UNCHANGED <<rotVars, notReadVars>>

ReadPassphrases == {EmptyPass, "p1", "p2"}

NextRead ==
    \/ \E f \in Names : save_entry(f, AppPassphrase)
    \/ \E f \in Names, p \in ReadPassphrases, meta \in SUBSET LegacyMetadata :
          write_legacy_entry(f, p, meta)
    \/ \E f \in Names : corrupt_file(f)
    \/ \E f \in Names, p \in ReadPassphrases : get_entry(f, p)

\* ======================= obfuscate_pii, detokenize_pii (pii_sanitizer.py)
\* A str is the sequence of its characters.  A text is made of fragments:
\* a word, a space, an SSN, a card number whose last ten digits also read as
\* a phone number, and the literal characters of a token.
FragmentChars ==
    [Word    |-> <<"s", "e", "e">>,
     Sp      |-> <<" ">>,
     SsnVal  |-> <<"1", "2", "3", "-", "4", "5", "-", "6", "7", "8", "9">>,
     CardVal |-> <<"5", "8", "1", "5", " ", "0", "4", "9", "8", "9", "5", "2", "9", "2", "6">>,
     TokLit  |-> <<"[", "S", "S", "N", "_", "1", "]">>]

Fragments == DOMAIN FragmentChars

\* Fragments that begin and end with a word character: two of them are not
\* put side by side, so that each keeps its word boundaries.
Wordy == {"Word", "SsnVal", "CardVal"}

Texts ==
    {fs \in UNION {[1..n -> Fragments] : n \in 0..MaxFragments} :
        \A i \in 1..(Len(fs) - 1) : ~(fs[i] \in Wordy /\ fs[i + 1] \in Wordy)}

RECURSIVE Chars(_)
Chars(fs) == IF fs = <<>> THEN <<>> ELSE FragmentChars[Head(fs)] \o Chars(Tail(fs))

\* s[a:b] of Python, with 0-based a and b >= 0.
Slice(s, a, b) == SubSeq(s, a + 1, IF b < Len(s) THEN b ELSE Len(s))

\* The order PIIDetector.detect tries its patterns in.
PatternOrder == [SSN |-> 1, EMAIL |-> 2, PHONE |-> 3, CREDIT_CARD |-> 4]

PIIMatch(type, start, end) == [type |-> type, start |-> start, end |-> end]

\* list.sort(key=...): a stable sort of matches by the key key[m]; x goes
\* after the matches whose key is smaller than or equal to its own.
RECURSIVE StableInsert(_, _, _)
StableInsert(x, sorted, key) ==
    IF sorted = <<>> THEN <<x>>
    ELSE IF key[x] < key[Head(sorted)] THEN <<x>> \o sorted
    ELSE <<Head(sorted)>> \o StableInsert(x, Tail(sorted), key)

RECURSIVE StableSort(_, _)
StableSort(ms, key) ==
    IF ms = <<>> THEN <<>>
    ELSE StableInsert(ms[Len(ms)], StableSort(SubSeq(ms, 1, Len(ms) - 1), key), key)

\* The matches of the patterns in the fragments from the i-th on, the i-th
\* starting at offset off: the SSN pattern finds an SSN; the phone pattern
\* finds the last ten digits of the card number; the card pattern finds the
\* card number, together with the last four digits of an SSN one space
\* before it.
RECURSIVE MatchesFrom(_, _, _)
MatchesFrom(fs, i, off) ==
    IF i > Len(fs) THEN <<>>
    ELSE LET n == Len(FragmentChars[fs[i]])
             here ==
                CASE fs[i] = "SsnVal" -> <<PIIMatch("SSN", off, off + n)>>
                  [] fs[i] = "CardVal" ->
                        <<PIIMatch("PHONE", off + 5, off + n),
                          PIIMatch("CREDIT_CARD",
                                   IF i >= 3 /\ fs[i - 1] = "Sp" /\ fs[i - 2] = "SsnVal"
                                   THEN off - 5 ELSE off,
                                   off + n)>>
                  [] OTHER -> <<>>
         IN here \o MatchesFrom(fs, i + 1, off + n)

\* detect_pii: the matches pattern by pattern, then sorted by start.
detect_pii(fs) ==
    LET found == MatchesFrom(fs, 1, 0)
        all == {found[i] : i \in 1..Len(found)}
    IN StableSort(StableSort(found, [m \in all |-> PatternOrder[m.type]]),
                  [m \in all |-> m.start])

TypeChars ==
    [SSN |-> <<"S", "S", "N">>,
     EMAIL |-> <<"E", "M", "A", "I", "L">>,
     PHONE |-> <<"P", "H", "O", "N", "E">>,
     CREDIT_CARD |-> <<"C", "R", "E", "D", "I", "T", "_", "C", "A", "R", "D">>]

DigitChars == <<"1", "2", "3", "4", "5", "6", "7", "8", "9">>

\* f"[{pii_type}_{n}]"
Token(pii_type, n) == <<"[">> \o TypeChars[pii_type] \o <<"_", DigitChars[n]>> \o <<"]">>

REDACTED == <<"[", "R", "E", "D", "A", "C", "T", "E", "D", "]">>

ObfuscationMethods == {"redact", "tokenize"}

\* The loop of obfuscate_pii over sorted_matches from the k-th on.  pii_map
\* is the dict as its items in insertion order.
RECURSIVE ObfuscateFrom(_, _, _, _, _, _, _)
ObfuscateFrom(text, method, sorted_matches, k, result_text, pii_map, token_counters) ==
    IF k > Len(sorted_matches) THEN [text |-> result_text, pii_map |-> pii_map]
    ELSE LET match == sorted_matches[k]
             original == Slice(text, match.start, match.end)
             count == token_counters[match.type] + 1
             replacement == IF method = "tokenize" THEN Token(match.type, count)
                            ELSE REDACTED
         IN ObfuscateFrom(text, method, sorted_matches, k + 1,
                Slice(result_text, 0, match.start) \o replacement
                    \o Slice(result_text, match.end, Len(result_text)),
                IF method = "tokenize"
                THEN Append(pii_map, <<replacement, original>>) ELSE pii_map,
                IF method = "tokenize"
                THEN [token_counters EXCEPT ![match.type] = count] ELSE token_counters)

\* obfuscate_pii(text, method) with the matches detect_pii finds.
ObfuscatePii(fs, method) ==
    LET text == Chars(fs)
        pii_matches == detect_pii(fs)
        sorted_matches ==
            StableSort(pii_matches,
                       [m \in {pii_matches[i] : i \in 1..Len(pii_matches)} |-> 0 - m.start])
    IN IF pii_matches = <<>> THEN [text |-> text, pii_map |-> <<>>]
       ELSE ObfuscateFrom(text, method, sorted_matches, 1, text, <<>>,
                          [t \in DOMAIN TypeChars |-> 0])

\* s.startswith(old, at) with a 0-based at.
StartsWithAt(s, old, at) ==
    at + Len(old) <= Len(s) /\ SubSeq(s, at + 1, at + Len(old)) = old

\* str.replace(old, new) from offset at on: every occurrence, left to right.
RECURSIVE ReplaceFrom(_, _, _, _)
ReplaceFrom(s, old, new, at) ==
    IF at >= Len(s) THEN <<>>
    ELSE IF StartsWithAt(s, old, at)
         THEN new \o ReplaceFrom(s, old, new, at + Len(old))
         ELSE <<s[at + 1]>> \o ReplaceFrom(s, old, new, at + 1)

\* The loop of detokenize_pii over pii_map.items() from the k-th item on.
RECURSIVE DetokenizeFrom(_, _, _)
DetokenizeFrom(result_text, pii_map, k) ==
    IF k > Len(pii_map) THEN result_text
    ELSE DetokenizeFrom(ReplaceFrom(result_text, pii_map[k][1], pii_map[k][2], 0),
                        pii_map, k + 1)

NotRun == [run |-> FALSE]

InitPii ==
    /\ journal_text = <<>>
    /\ sanitized = NotRun
    /\ restored = NotRun

\* A text arrives.
write_text(fs) ==
    /\ journal_text = <<>>
    /\ sanitized = NotRun
    /\ fs # <<>>
    /\ journal_text' = fs
    /\ UNCHANGED <<sanitized, restored, notPiiVars>>

obfuscate_pii(method) ==
    /\ sanitized = NotRun
    /\ sanitized' = [run |-> TRUE, method |-> method,
                     out |-> ObfuscatePii(journal_text, method)]
    /\ UNCHANGED <<journal_text, restored, notPiiVars>>

detokenize_pii ==
    /\ sanitized # NotRun
    /\ restored = NotRun
    /\ restored' = [run |-> TRUE,
                    text |-> DetokenizeFrom(sanitized.out.text, sanitized.out.pii_map, 1)]
    /\ UNCHANGED <<journal_text, sanitized, notPiiVars>>

NextPii ==
    \/ \E fs \in Texts : write_text(fs)
    \/ \E method \in ObfuscationMethods : obfuscate_pii(method)
    \/ detokenize_pii

\* ============================== check_passphrase_strength (passphrase.py)
\* The passphrases scored, each with what len(), str.lower(),
\* calculate_entropy (in thousandths of a bit), the four character-class
\* searches and _check_repeated_patterns make of it.
PassphraseFacts ==
    {
     [passphrase |-> "password", lower |-> "password", len |-> 8, entropy |-> 22000,
      has_lower |-> TRUE, has_upper |-> FALSE, has_digit |-> FALSE, has_special |-> FALSE,
      pattern_issues |-> 0],
     [passphrase |-> "Password123", lower |-> "password123", len |-> 11, entropy |-> 36053,
      has_lower |-> TRUE, has_upper |-> TRUE, has_digit |-> TRUE, has_special |-> FALSE,
      pattern_issues |-> 1],
     [passphrase |-> "TrustNo1", lower |-> "trustno1", len |-> 8, entropy |-> 24000,
      has_lower |-> TRUE, has_upper |-> TRUE, has_digit |-> TRUE, has_special |-> FALSE,
      pattern_issues |-> 0],
     [passphrase |-> "abc123", lower |-> "abc123", len |-> 6, entropy |-> 15509,
      has_lower |-> TRUE, has_upper |-> FALSE, has_digit |-> TRUE, has_special |-> FALSE,
      pattern_issues |-> 2],
     [passphrase |-> "1qaz2wsx3edc4rfv", lower |-> "1qaz2wsx3edc4rfv", len |-> 16, entropy |-> 64000,
      has_lower |-> TRUE, has_upper |-> FALSE, has_digit |-> TRUE, has_special |-> FALSE,
      pattern_issues |-> 0],
     [passphrase |-> "Qwertyuiop123456!", lower |-> "qwertyuiop123456!", len |-> 17, entropy |-> 69486,
      has_lower |-> TRUE, has_upper |-> TRUE, has_digit |-> TRUE, has_special |-> TRUE,
      pattern_issues |-> 1],
     [passphrase |-> "zK8#mQ2$vL9@xR4!", lower |-> "zk8#mq2$vl9@xr4!", len |-> 16, entropy |-> 64000,
      has_lower |-> TRUE, has_upper |-> TRUE, has_digit |-> TRUE, has_special |-> TRUE,
      pattern_issues |-> 0],
     [passphrase |-> "correct-horse-battery", lower |-> "correct-horse-battery", len |-> 21, entropy |-> 68728,
      has_lower |-> TRUE, has_upper |-> FALSE, has_digit |-> FALSE, has_special |-> TRUE,
      pattern_issues |-> 0]
    }

FactsOf(passphrase) == CHOOSE f \in PassphraseFacts : f.passphrase = passphrase

ScoredPassphrases == {f.passphrase : f \in PassphraseFacts}

_get_fallback_common_passwords ==
    {"password", "123456", "password123", "qwerty", "abc123", "letmein",
     "welcome", "monkey", "dragon", "master", "passw0rd", "admin", "login",
     "sunshine", "iloveyou", "princess", "football", "starwars", "batman",
     "trustno1"}

\* Lines a data/common_passwords.txt can hold.
CommonPasswordLines == {"password", "iloveyou", "1qaz2wsx3edc4rfv", "qwertyuiop123456!"}

_score_length(length) ==
    IF length < 8 THEN 0 ELSE IF length < 12 THEN 10 ELSE IF length < 16 THEN 25 ELSE 40

\* entropy in thousandths of a bit
_score_entropy(entropy) ==
    IF entropy < 40000 THEN 5 ELSE IF entropy < 60000 THEN 15
    ELSE IF entropy < 80000 THEN 25 ELSE 30

BoolInt(b) == IF b THEN 1 ELSE 0

_check_character_diversity(f) ==
    (BoolInt(f.has_lower) + BoolInt(f.has_upper) + BoolInt(f.has_digit)
        + BoolInt(f.has_special)) * 5

Max(a, b) == IF a > b THEN a ELSE b

_classify_strength(score) ==
    IF score < 30 THEN "WEAK" ELSE IF score < 50 THEN "MEDIUM"
    ELSE IF score < 70 THEN "STRONG" ELSE "VERY_STRONG"

\* The score of check_passphrase_strength, step by step as the code adds it up.
StrengthScore(passphrase, common) ==
    LET f == FactsOf(passphrase)
        after_length == _score_length(f.len)
        after_common == IF f.lower \in common THEN Max(0, after_length - 30)
                        ELSE after_length
        after_entropy == after_common + _score_entropy(f.entropy)
        after_diversity == after_entropy + _check_character_diversity(f)
        after_patterns == IF f.pattern_issues > 0
                          THEN Max(0, after_diversity - 10 * f.pattern_issues)
                          ELSE after_diversity
    IN Min(100, after_patterns)

InitStrength ==
    /\ common_passwords = _get_fallback_common_passwords
    /\ strength_answer = [op |-> "none"]

\* _load_common_passwords at import: the lines of the data file, lowercased,
\* or the fallback list when there is no file.
_load_common_passwords(password_file) ==
    /\ common_passwords' = IF password_file = Absent
                           THEN _get_fallback_common_passwords
                           ELSE password_file.lines
    /\ strength_answer' = [op |-> "none"]
    /\ UNCHANGED notStrengthVars

check_passphrase_strength(passphrase) ==
    /\ strength_answer' =
          [op |-> "check_passphrase_strength", passphrase |-> passphrase,
           score |-> StrengthScore(passphrase, common_passwords),
           strength |-> _classify_strength(StrengthScore(passphrase, common_passwords))]
    /\ UNCHANGED <<common_passwords, notStrengthVars>>

NextStrength ==
    \/ \E file \in {Absent} \cup {[kind |-> "lines", lines |-> ls] :
                                    ls \in SUBSET CommonPasswordLines} :
          _load_common_passwords(file)
    \/ \E p \in ScoredPassphrases : check_passphrase_strength(p)

\* ======================================= CircuitBreaker (circuit_breaker.py)
Thresholds == 1..MaxThreshold
Timeouts == {1, 2}
HalfOpenAttempts == {1, 2}

NoBreaker == [made |-> FALSE]
NoHistory == [streak |-> 0, opened_at |-> 0, trial_successes |-> 0]

InitBreaker ==
    /\ breaker = NoBreaker
    /\ cb_now = 0
    /\ cb_ticks = 0
    /\ cb_calls = 0
    /\ cb_answer = [op |-> "none"]
    /\ cb_history = NoHistory

\* CircuitBreaker(failure_threshold, timeout, half_open_attempts)
CircuitBreaker(failure_threshold, timeout, half_open_attempts) ==
    /\ ~breaker.made
    /\ breaker' = [made |-> TRUE,
                   failure_threshold |-> failure_threshold,
                   timeout |-> timeout,
                   half_open_attempts |-> half_open_attempts,
                   state |-> "CLOSED",
                   failure_count |-> 0,
                   success_count |-> 0,
                   last_failure_time |-> 0]
    /\ UNCHANGED <<cb_now, cb_ticks, cb_calls, cb_answer, cb_history, notBreakerVars>>

\* Time passes: a second, or two.
breaker_tick(d) ==
    /\ breaker.made
    /\ cb_ticks < MaxBreakerTicks
    /\ cb_now' = cb_now + d
    /\ cb_ticks' = cb_ticks + 1
    /\ UNCHANGED <<breaker, cb_calls, cb_answer, cb_history, notBreakerVars>>

\* The breaker after call() has looked at an OPEN state: HALF_OPEN when the
\* timeout has elapsed.
AfterOpenCheck(b, t) ==
    IF b.state = "OPEN" /\ t - b.last_failure_time >= b.timeout
    THEN [b EXCEPT !.state = "HALF_OPEN", !.success_count = 0]
    ELSE b

\* A check that lets a call through one second before the timeout has elapsed.
Blocked_Early(b, t) == b.state = "OPEN" /\ ~(t - b.last_failure_time + 1 >= b.timeout)

\* call() raises CircuitBreakerError.
Blocked(b, t) == b.state = "OPEN" /\ ~(t - b.last_failure_time >= b.timeout)

\* A record_success that closes the circuit and keeps the failure count.
record_success_KeepsCount(b) ==
    IF b.state = "HALF_OPEN"
    THEN IF b.success_count + 1 >= b.half_open_attempts
         THEN [b EXCEPT !.state = "CLOSED", !.success_count = 0]
         ELSE [b EXCEPT !.success_count = @ + 1]
    ELSE IF b.state = "CLOSED" /\ b.failure_count > 0
         THEN [b EXCEPT !.failure_count = 0]
         ELSE b

record_success(b) ==
    IF b.state = "HALF_OPEN"
    THEN IF b.success_count + 1 >= b.half_open_attempts
         THEN [b EXCEPT !.state = "CLOSED", !.failure_count = 0, !.success_count = 0]
         ELSE [b EXCEPT !.success_count = @ + 1]
    ELSE IF b.state = "CLOSED" /\ b.failure_count > 0
         THEN [b EXCEPT !.failure_count = 0]
         ELSE b

\* A record_failure that opens the circuit one failure late.
record_failure_Late(b, t) ==
    LET counted == [b EXCEPT !.failure_count = @ + 1, !.last_failure_time = t]
    IN IF counted.state = "HALF_OPEN"
       THEN [counted EXCEPT !.state = "OPEN", !.success_count = 0]
       ELSE IF counted.failure_count > counted.failure_threshold
            THEN [counted EXCEPT !.state = "OPEN"]
            ELSE counted

record_failure(b, t) ==
    LET counted == [b EXCEPT !.failure_count = @ + 1, !.last_failure_time = t]
    IN IF counted.state = "HALF_OPEN"
       THEN [counted EXCEPT !.state = "OPEN", !.success_count = 0]
       ELSE IF counted.failure_count >= counted.failure_threshold
            THEN [counted EXCEPT !.state = "OPEN"]
            ELSE counted

\* What the history of calls becomes with a call that ran the function.
HistoryAfter(before, tried, after, ok) ==
    [streak |-> IF ok THEN 0 ELSE cb_history.streak + 1,
     opened_at |-> IF before.state = "CLOSED" /\ after.state = "OPEN"
                   THEN cb_history.streak + 1 ELSE cb_history.opened_at,
     trial_successes |->
         IF ~ok \/ tried.state # "HALF_OPEN" THEN 0
         ELSE IF before.state = "OPEN" THEN 1
         ELSE cb_history.trial_successes + 1]

\* call(func) where func returns (ok) or raises an Exception (~ok).
call(ok) ==
    /\ breaker.made
    /\ cb_calls < MaxBreakerCalls
    /\ cb_calls' = cb_calls + 1
    /\ IF Blocked(breaker, cb_now)
       THEN /\ cb_answer' = [op |-> "call", before |-> breaker, at |-> cb_now,
                             raised |-> "CircuitBreakerError", invoked |-> FALSE,
                             ran_in |-> "none", after |-> breaker]
            /\ UNCHANGED <<breaker, cb_history>>
       ELSE LET tried == AfterOpenCheck(breaker, cb_now)
                after == IF ok THEN record_success(tried)
                         ELSE record_failure(tried, cb_now)
            IN /\ breaker' = after
               /\ cb_answer' = [op |-> "call", before |-> breaker, at |-> cb_now,
                                raised |-> IF ok THEN "nothing" ELSE "Exception",
                                invoked |-> TRUE, ran_in |-> tried.state,
                                after |-> after]
               /\ cb_history' = HistoryAfter(breaker, tried, after, ok)
    /\ UNCHANGED <<cb_now, cb_ticks, notBreakerVars>>

\* reset(): back to CLOSED by hand.
breaker_reset ==
    /\ breaker.made
    /\ breaker.state # "CLOSED"
    /\ breaker' = [breaker EXCEPT !.state = "CLOSED", !.failure_count = 0,
                                  !.success_count = 0]
    /\ cb_history' = NoHistory
    /\ cb_answer' = [op |-> "reset"]
    /\ UNCHANGED <<cb_now, cb_ticks, cb_calls, notBreakerVars>>

NextBreaker ==
    \/ \E ft \in Thresholds, to \in Timeouts, hoa \in HalfOpenAttempts :
          CircuitBreaker(ft, to, hoa)
    \/ \E d \in Timeouts : breaker_tick(d)
    \/ \E ok \in BOOLEAN : call(ok)
    \/ breaker_reset

\* ======================================== retry_with_backoff (retry.py)
RetryCounts == 0..MaxRetries
BaseDelays == {1, 2}
MaxDelays == {3, 10}
ExceptionTypes == {"ValueError", "TypeError"}
\* The exceptions argument: one type, or every Exception (the default).
ExceptionTuples == {{"ValueError"}, ExceptionTypes}
FuncResults == {"success", "other"}

NotCalled == [pc |-> "idle"]
Pending == [kind |-> "pending"]

\* An exception object: its type and the invocation of func that raised it.
ExceptionOf(type, n) == [kind |-> "raise", type |-> type, invocation |-> n]

InitRetry ==
    /\ retry = NotCalled
    /\ retry_trace = <<>>
    /\ retry_slept = <<>>
    /\ retry_outcome = Pending

\* retry_with_backoff(func, max_retries, base_delay, max_delay, exceptions):
\* the assignments before the loop, up to the first invocation of func.
retry_with_backoff(max_retries, base_delay, max_delay, exceptions) ==
    /\ retry.pc = "idle"
    /\ retry' = [pc |-> "try",
                 max_retries |-> max_retries,
                 max_delay |-> max_delay,
                 exceptions |-> exceptions,
                 last_exception |-> "None",
                 delay |-> base_delay,
                 attempt |-> 0]
    /\ UNCHANGED <<retry_trace, retry_slept, retry_outcome, notRetryVars>>

\* func() returns: the result is returned.
func_returns(value) ==
    /\ retry.pc = "try"
    /\ retry_trace' = Append(retry_trace, [kind |-> "return", value |-> value])
    /\ retry_outcome' = [kind |-> "return", value |-> value]
    /\ retry' = [retry EXCEPT !.pc = "done"]
    /\ UNCHANGED <<retry_slept, notRetryVars>>

\* A loop that gives up one attempt late.
func_raises_OneMore(type) ==
    /\ retry.pc = "try"
    /\ LET e == ExceptionOf(type, Len(retry_trace) + 1)
       IN /\ retry_trace' = Append(retry_trace, e)
          /\ IF type \notin retry.exceptions
             THEN /\ retry_outcome' = e
                  /\ retry' = [retry EXCEPT !.pc = "done"]
             ELSE IF retry.attempt = retry.max_retries + 1
             THEN /\ retry_outcome' = e
                  /\ retry' = [retry EXCEPT !.pc = "done", !.last_exception = e]
             ELSE /\ retry' = [retry EXCEPT !.pc = "sleep", !.last_exception = e]
                  /\ UNCHANGED retry_outcome
    /\ UNCHANGED <<retry_slept, notRetryVars>>

\* func() raises: an exception that is not in exceptions propagates, one
\* that is in it is raised again on the last attempt and slept on otherwise.
func_raises(type) ==
    /\ retry.pc = "try"
    /\ LET e == ExceptionOf(type, Len(retry_trace) + 1)
       IN /\ retry_trace' = Append(retry_trace, e)
          /\ IF type \notin retry.exceptions
             THEN /\ retry_outcome' = e
                  /\ retry' = [retry EXCEPT !.pc = "done"]
             ELSE IF retry.attempt = retry.max_retries
             THEN /\ retry_outcome' = e
                  /\ retry' = [retry EXCEPT !.pc = "done", !.last_exception = e]
             ELSE /\ retry' = [retry EXCEPT !.pc = "sleep", !.last_exception = e]
                  /\ UNCHANGED retry_outcome
    /\ UNCHANGED <<retry_slept, notRetryVars>>

\* asyncio.sleep(delay) is over: the delay doubles, up to max_delay, and the
\* loop goes to its next attempt.
sleep_done ==
    /\ retry.pc = "sleep"
    /\ retry_slept' = Append(retry_slept, retry.delay)
    /\ retry' = [retry EXCEPT !.pc = "try",
                              !.delay = Min(retry.delay * 2, retry.max_delay),
                              !.attempt = @ + 1]
    /\ UNCHANGED <<retry_trace, retry_outcome, notRetryVars>>

NextRetry ==
    \/ \E max_retries \in RetryCounts, base_delay \in BaseDelays,
          max_delay \in MaxDelays, exceptions \in ExceptionTuples :
          retry_with_backoff(max_retries, base_delay, max_delay, exceptions)
    \/ \E value \in FuncResults : func_returns(value)
    \/ \E type \in ExceptionTypes : func_raises(type)
    \/ sleep_done

\* ================================== get_passphrase (passphrase_prompt.py)
PromptPassphrases == {"p1", "p2"}
HashSalts == {"s1", "s2"}

\* The stored record: the salt and the PBKDF2 digest of the passphrase
\* under that salt.
PBKDF2Digest(passphrase, salt) == <<"PBKDF2", passphrase, salt>>
generate_passphrase_hash(passphrase, salt) ==
    [none |-> FALSE, salt |-> salt, digest |-> PBKDF2Digest(passphrase, salt)]

\* The digest is computed again with the stored salt and compared.
verify_passphrase_hash(passphrase, stored) ==
    /\ stored # None
    /\ PBKDF2Digest(passphrase, stored.salt) = stored.digest

max_attempts == 3

\* session.set_passphrase(passphrase): what the session holds afterwards.
set_passphrase(passphrase) == [none |-> FALSE, value |-> passphrase]

NotPrompting == [pc |-> "idle"]

InitPrompt ==
    /\ session = None
    /\ passphrase_marker = FALSE
    /\ passphrase_hash = None
    /\ prompting = NotPrompting
    /\ prompt_log = <<>>
    /\ prompt_answer = [op |-> "none"]

\* setup_first_passphrase(): the user settles on a passphrase; its hash is
\* saved to the configuration, the marker is set, the session caches it.
setup_first_passphrase(passphrase, salt) ==
    /\ passphrase_hash' = generate_passphrase_hash(passphrase, salt)
    /\ passphrase_marker' = TRUE
    /\ session' = set_passphrase(passphrase)
    /\ prompt_answer' = [op |-> "get_passphrase", returned |-> passphrase,
                         from |-> "setup"]

\* get_passphrase(), up to its return from the cache or from the first-time
\* setup, or up to its first prompt.
get_passphrase(passphrase, salt) ==
    /\ prompting.pc = "idle"
    /\ IF session # None
       THEN /\ prompt_answer' = [op |-> "get_passphrase", returned |-> session.value,
                                 from |-> "cache"]
            /\ UNCHANGED <<session, passphrase_marker, passphrase_hash, prompting>>
       ELSE IF ~passphrase_marker \/ passphrase_hash = None
       THEN /\ setup_first_passphrase(passphrase, salt)
            /\ UNCHANGED prompting
       ELSE /\ prompting' = [pc |-> "ask", attempt |-> 1]
            /\ prompt_answer' = [op |-> "get_passphrase", from |-> "prompt"]
            /\ UNCHANGED <<session, passphrase_marker, passphrase_hash>>
    /\ UNCHANGED <<prompt_log, guardVars, notPromptVars>>

\* Prompt.ask returns what the user typed: it is verified against the
\* stored hash; a match is cached and returned, the third mismatch raises.
Prompt_ask(typed) ==
    /\ prompting.pc = "ask"
    /\ Len(prompt_log) < MaxPrompts
    /\ LET verified == verify_passphrase_hash(typed, passphrase_hash)
       IN /\ prompt_log' = Append(prompt_log, [at |-> now, verified |-> verified])
          /\ IF verified
             THEN /\ session' = set_passphrase(typed)
                  /\ prompting' = NotPrompting
                  /\ prompt_answer' = [op |-> "get_passphrase", returned |-> typed,
                                       from |-> "prompt"]
             ELSE IF prompting.attempt < max_attempts
             THEN /\ prompting' = [prompting EXCEPT !.attempt = @ + 1]
                  /\ UNCHANGED <<session, prompt_answer>>
             ELSE /\ prompting' = NotPrompting
                  /\ prompt_answer' = [op |-> "get_passphrase",
                                       raised |-> "ValueError", from |-> "prompt"]
                  /\ UNCHANGED session
    /\ UNCHANGED <<passphrase_marker, passphrase_hash, guardVars, notPromptVars>>

\* A new process: session.py is imported again, _session is a new object.
PassphraseSession ==
    /\ prompting.pc = "idle"
    /\ session # None
    /\ session' = None
    /\ UNCHANGED <<passphrase_marker, passphrase_hash, prompting, prompt_log,
                   prompt_answer, guardVars, notPromptVars>>

\* Between two prompts the clock is seen to advance by the window of the
\* rate limit.
PromptClockSteps == {timedelta(0, window_minutes)}

NextPrompt ==
    \/ \E d \in PromptClockSteps : Tick(d)
    \/ \E p \in PromptPassphrases, salt \in HashSalts : get_passphrase(p, salt)
    \/ \E typed \in PromptPassphrases : Prompt_ask(typed)
    \/ PassphraseSession

\* ============================ rotate_keys over a journal with Legacy records
\* A journal that holds records of both formats, all under the passphrase
\* the journal was set up with, and is then rotated.
RotatedLegacyMetadata == {{"timestamp"}, {"timestamp", "sentiment"}}

NextLegacy ==
    \/ \E f \in Names, meta \in RotatedLegacyMetadata :
          write_legacy_entry(f, AppPassphrase, meta)
    \/ NextRotate

\* -------------------------------------------------------- specifications
Init == InitRotate /\ InitGuard /\ InitConc /\ InitAudit /\ InitWriters /\ InitRead
            /\ InitPii /\ InitStrength
            /\ InitBreaker
            /\ InitRetry
            /\ InitPrompt
Next == NextRotate \/ NextGuard \/ NextConc \/ NextAudit \/ NextLedger \/ NextWriters
           \/ NextRead \/ NextPii \/ NextStrength
           \/ NextBreaker
           \/ NextRetry
           \/ NextPrompt
Spec == Init /\ [][Next]_vars
SpecRotate == Init /\ [][NextRotate]_vars
SpecGuard == Init /\ [][NextGuard]_vars
SpecConc == Init /\ [][NextConc]_vars
SpecAudit == Init /\ [][NextAudit]_vars
SpecLedger == Init /\ [][NextLedger]_vars
SpecWriters == Init /\ [][NextWriters]_vars
SpecRead == Init /\ [][NextRead]_vars
SpecPii == Init /\ [][NextPii]_vars
SpecStrength == Init /\ [][NextStrength]_vars
SpecBreaker == Init /\ [][NextBreaker]_vars
SpecRetry == Init /\ [][NextRetry]_vars
SpecPrompt == Init /\ [][NextPrompt]_vars
SpecLegacy == Init /\ [][NextLegacy]_vars

\* ======================================================== claims: rotate_keys
Present0 == {f \in Names : files0[f] # Absent}

\* The entry a record file holds, as decrypt_full_entry_from_dict returns it.
Opened(file, passphrase) ==
    LET data == read_json(file)
    IN IF data.ok THEN decrypt_full_entry_from_dict(data.val, passphrase) ELSE Err

\* The call went past the check of the old passphrase and ran its loop.
LoopRan == result.returned /\ result.entries_rotated + result.entries_failed > 0

\* The files named in the errors of the result.
FailedNames == {result.errors[i].file : i \in 1..Len(result.errors)}

\* The version of record f the call writes: its old content re-encrypted.
NewVersion(f) == Reencrypted(files0[f], old_passphrase, new_passphrase)

NoTempFile == \A f \in Names : tmps[f] = Absent

\* C1: a rotation interrupted between two of its steps (no I/O error having
\* occurred) leaves no temp file in the records directory, and every record
\* file is either the version it was before the call or the complete
\* re-encrypted version.
C1_InterruptedLeavesNothingPartial ==
    (pc = "killed" /\ faults = 0) =>
        /\ NoTempFile
        /\ \A f \in Names :
              \/ files[f] = files0[f]
              \/ NewVersion(f).ok /\ files[f] = JsonFile(NewVersion(f).val)

\* C2: when rotate_keys has returned, whatever the outcome, no temp file
\* remains in the records directory.
C2_NoTempFileAfterReturn == pc = "done" => NoTempFile

\* C3: every record the call rotated opened with the old passphrase before
\* the call, and opens with the new passphrase after it to the same entry;
\* after a successful call that is every record of the directory.
C3_RotationPreservesEntries ==
    (pc = "done" /\ LoopRan) =>
        /\ \A f \in Present0 \ FailedNames :
              /\ Opened(files0[f], old_passphrase).ok
              /\ Opened(files[f], new_passphrase) = Opened(files0[f], old_passphrase)
        /\ result.success => FailedNames = {}

C3_Witness ==
    /\ pc = "done"
    /\ result.returned
    /\ result.success
    /\ result.entries_rotated = NumFiles
    /\ old_passphrase # new_passphrase
    /\ \A f \in Names : Opened(files[f], new_passphrase) = Ok(EntryOf(f))

Unreadable0 == {f \in Present0 : ~verify_passphrase(old_passphrase, files0[f])}

\* C5: when exactly one record cannot be rotated (it does not open with the
\* old passphrase) and no I/O error occurs, the call names it in errors and
\* every other record ends up re-encrypted under the new passphrase.
C5_SingleFailureDoesNotStopOthers ==
    (/\ pc = "done"
     /\ faults = 0
     /\ new_passphrase # EmptyPass
     /\ Cardinality(Unreadable0) = 1
     /\ Cardinality(Present0) > 1) =>
        /\ Unreadable0 \subseteq FailedNames
        /\ \A f \in Present0 \ Unreadable0 :
              Opened(files[f], new_passphrase) = Opened(files0[f], old_passphrase)

\* The call stopped at the check of the old passphrase.
Aborted == sample # 0 /\ ~verify_passphrase(old_passphrase, files0[sample])

C7_BackupBeforeReplace ==
    (backup_dir /\ (pc \in {"read", "replace"} \/ (pc = "done" /\ LoopRan)
                    \/ files # files0)) =>
        \A f \in Names :
           /\ backups[f] = files0[f]
           /\ verify_passphrase(old_passphrase, files0[f])
                 => verify_passphrase(old_passphrase, backups[f])

C7_Witness ==
    /\ pc = "done"
    /\ backup_dir
    /\ result.returned
    /\ result.entries_rotated = NumFiles
    /\ old_passphrase # new_passphrase
    /\ \A f \in Names : /\ backups[f] # files[f]
                        /\ verify_passphrase(old_passphrase, backups[f])
                        /\ ~verify_passphrase(new_passphrase, backups[f])

\* C8: after a successful rotation from old to new, old # new, every record
\* opens with the new passphrase and with no other passphrase, the old one
\* included; so after successive rotations only the latest passphrase opens.
C8_OnlyLatestPassphraseOpens ==
    (pc = "done" /\ LoopRan /\ result.success /\ old_passphrase # new_passphrase) =>
        \A f \in Present0 :
           \A p \in Passphrases :
              verify_passphrase(p, files[f]) <=> p = new_passphrase

\* The second of two successive rotations, p1 to p2 to p3, of a full directory.
C8_Witness ==
    /\ pc = "done"
    /\ calls = 2
    /\ LoopRan
    /\ result.success
    /\ result.entries_rotated = NumFiles
    /\ old_passphrase = "p2"
    /\ new_passphrase = "p3"
    /\ \A f \in Names : /\ verify_passphrase("p3", files[f])
                        /\ ~verify_passphrase("p2", files[f])
                        /\ ~verify_passphrase(AppPassphrase, files[f])

\* ============================================ claims: BruteForceProtector
\* The failures reported since the last success that are at most the given
\* number of minutes old.
FailuresWithin(minutes) ==
    {i \in 1..Len(recorded) : now - recorded[i] <= minutes}

\* C9: check_rate_limit rejects exactly when at least 5 of the failures
\* recorded are at most 15 minutes old; so five failures in a row are each
\* allowed to be tried, the sixth attempt is rejected, and the check allows
\* again once fewer than 5 failures are left in the window.
C9_RateLimitIffFiveInWindow ==
    answer.op = "check_rate_limit" =>
        (answer.allowed <=> Cardinality(FailuresWithin(15)) < 5)

\* Six failures recorded, the first of them 16 minutes old and the other five
\* exactly 15 minutes old: the check rejects on the five.
C9_Witness ==
    /\ answer.op = "check_rate_limit"
    /\ ~answer.allowed
    /\ Len(recorded) = 6
    /\ now - recorded[1] = 16
    /\ \A i \in 2..6 : now - recorded[i] = 15

\* C10: is_locked_out reports a lock exactly when at least 10 of the
\* failures recorded are at most 24 hours old; older failures do not count.
C10_LockedIffTenInDay ==
    answer.op = "is_locked_out" =>
        (answer.locked <=> Cardinality(FailuresWithin(24 * 60)) >= 10)

\* Ten failures recorded, nine of them within the day and one older: no lock.
C10_Witness ==
    /\ answer.op = "is_locked_out"
    /\ ~answer.locked
    /\ Len(recorded) = 10
    /\ now - recorded[1] = 24 * 60 + 1
    /\ \A i \in 2..10 : now - recorded[i] <= 1

\* The attempts a query of the protector loads in this state.
Ledger == load_attempts(attempts_file)

\* C11: right after record_attempt(success=true), whatever failures came
\* before, the attempt ledger is empty, check_rate_limit allows,
\* is_locked_out reports no lock and get_delay_seconds returns 0.
C11_SuccessClearsAllState ==
    (answer.op = "record_attempt" /\ answer.success) =>
        /\ Ledger = <<>>
        /\ RateLimitAnswer(Ledger, now).allowed
        /\ ~LockoutAnswer(Ledger, now).locked
        /\ DelayAnswer(Ledger, now).delay = 0

\* A success reported after ten failures.
C11_Witness ==
    /\ answer.op = "record_attempt"
    /\ answer.success
    /\ answer.cleared = 10
    /\ attempts_file = Absent

\* C12: when every record_attempt(success=false) call made side by side has
\* returned, the ledger holds one entry for each of them: none is lost.
C12_NoLostAttempt ==
    (\A p \in Callers : callers[p] = Idle) => Len(Ledger) = Len(recorded)

\* The backoff delay for n failures in the window: 2^(n-2) seconds, at most 60.
ExpectedDelay(n) == IF n < 2 THEN 0 ELSE IF n >= 8 THEN 60 ELSE 2^(n - 2)

EarliestAllowed ==
    CHOOSE t \in now..(now + 16) :
        /\ RateLimitAnswer(Ledger, t).allowed
        /\ \A u \in now..(t - 1) : ~RateLimitAnswer(Ledger, u).allowed

\* C14: when check_rate_limit rejects, the time it names is the earliest
\* time at which it allows again with no further failure recorded (to the
\* minute: the named minute or the one after it is the first allowed one).
C14_RetryTimeIsEarliest ==
    (answer.op = "check_rate_limit" /\ ~answer.allowed) =>
        answer.next_attempt \in {strftime_HM(EarliestAllowed),
                                 strftime_HM(EarliestAllowed - 1)}

\* C15: when is_locked_out reports a lock, the unlock time it returns is not
\* in the past, the lock is reported at every moment before that time and,
\* with no further attempt recorded, no longer from it on (to the minute:
\* from the minute after it on).
C15_UnlockTimeEndsLock ==
    (answer.op = "is_locked_out" /\ answer.locked) =>
        /\ answer.unlock_time >= now
        /\ \A t \in now..(answer.unlock_time - 1) : LockoutAnswer(Ledger, t).locked
        /\ ~LockoutAnswer(Ledger, answer.unlock_time + 1).locked

\* ====================================================== claims: audit ledger
\* C16: verify with the passphrase of the ledger flags exactly the damaged
\* lines, by 1-based number: ok = true and nothing flagged when no line was
\* modified; ok = false, line k flagged and no unmodified line flagged after
\* line k had its encrypted event or integrity hash altered or was made
\* unparsable.
C16_VerifyFlagsExactlyDamaged ==
    (audit_answer.op = "verify" /\ audit_answer.passphrase = AppPassphrase) =>
        /\ {audit_answer.tampered[i] : i \in 1..Len(audit_answer.tampered)} = damaged
        /\ audit_answer.ok <=> damaged = {}

\* Three events logged, the second line damaged: verify flags line 2 only.
C16_Witness ==
    /\ audit_answer.op = "verify"
    /\ audit_answer.passphrase = AppPassphrase
    /\ Len(LinesOf(audit_file)) = 3
    /\ damaged = {2}
    /\ audit_answer.tampered = <<2>>
    /\ ~audit_answer.ok

\* ================================================== claims: plain audit log
\* A log call has returned: one more event is on record.
LogCallStep == Len(logged') = Len(logged) + 1

\* C17: the audit log is append-only: every log call adds exactly one line at
\* the end of the file and leaves the earlier lines as they were, and, while
\* no line was changed from outside, the file holds the logged events one per
\* line and read_entries without filters returns them in the order logged.
C17_AppendOnlyInOrder ==
    /\ [][LogCallStep =>
            LinesOf(audit_file') =
                Append(LinesOf(audit_file), DictLine(logged'[Len(logged')]))]_vars
    /\ []((audit_file # Absent /\ damaged = {}) =>
            /\ LinesOf(audit_file) = [i \in 1..Len(logged) |-> DictLine(logged[i])]
            /\ ~ReadAnswer(audit_file, None, None, None).raised
            /\ ReadAnswer(audit_file, None, None, None).entries = logged)

\* Three events were logged and then read back, in order.
C17_Witness ==
    /\ Len(logged) = 3
    /\ damaged = {}
    /\ Len(LinesOf(audit_file)) = 3
    /\ audit_answer.op = "read_entries"
    /\ ~audit_answer.raised
    /\ audit_answer.entries = logged
    /\ logged[1].timestamp # logged[3].timestamp

\* The logged events whose lines were not changed, in the order logged.
UndamagedEvents ==
    LET kept == SelectSeq([i \in 1..Len(logged) |-> i], LAMBDA i : i \notin damaged)
    IN [j \in 1..Len(kept) |-> logged[kept[j]]]

\* C18: reading the log never aborts on a bad line: read_entries without
\* filters raises nothing, skips the bad lines and returns every valid line
\* before and after them, in order; with the log file missing it returns the
\* empty list.
C18_ReadSkipsBadLines ==
    LET read == ReadAnswer(audit_file, None, None, None)
    IN /\ ~read.raised
       /\ read.entries = UndamagedEvents

\* C19: appends to the audit log are serialized: with several log calls
\* running side by side, every line of the file is one complete entry, and
\* once the calls have returned the file has one line for each of them.
C19_AppendsSerialized ==
    /\ \A k \in 1..Len(LinesOf(audit_file)) : IsEntryLine(audit_file.lines[k])
    /\ (\A w \in Writers : writers[w] = Idle) =>
          /\ open_line = <<>>
          /\ Len(LinesOf(audit_file)) = Len(logged)

\* ======================================================= claims: envelopes
FullEnvelopeKeys == {"id", "encrypted", "salt", "nonce", "ciphertext"}

\* The files an encrypted save or a rotation has written JSON to.
WrittenEnvelopes == {files[f] : f \in Names} \cup {tmps[f] : f \in Names}
                        \cup {backups[f] : f \in Names}

\* C20: every envelope written by an encrypted save or by rotation is a Full
\* envelope: its keys are exactly id, encrypted, salt, nonce and ciphertext,
\* with encrypted true, so that no metadata of the entry is stored in plaintext
\* beside the ciphertext.
C20_OnlyFullEnvelopesWritten ==
    \A file \in WrittenEnvelopes :
        file.kind = "json" =>
            /\ DOMAIN file.data = FullEnvelopeKeys
            /\ file.data["encrypted"] = TRUE

\* Records were saved, a rotation has run and a second one is under way: a
\* record file, a backup and a temp file written by them are on disk.
C20_Witness ==
    /\ calls = 2
    /\ \E f \in Names : tmps[f].kind = "json" /\ DOMAIN tmps[f].data = FullEnvelopeKeys
    /\ \A f \in Names : files[f].kind = "json"
    /\ \E f \in Names : backups[f].kind = "json"

\* ======================================================= claims: get_entry
\* The keys of an envelope that are neither crypto fields nor the id and the
\* encrypted flag of a Full envelope: its plaintext metadata.
PlaintextMetadata(data) == DOMAIN data \ FullEnvelopeKeys

\* The rule for reading an envelope with the crypto fields: without plaintext
\* metadata it is Full and the whole record comes out of the ciphertext; with
\* any plaintext metadata key it is Legacy and the record is the clear
\* metadata plus the decrypted text.
ResolvedByRule(data, passphrase) ==
    IF PlaintextMetadata(data) = {}
    THEN LET record == decrypt_full_entry_from_dict(data, passphrase)
         IN IF record.ok /\ JournalEntry(record.val).ok
            THEN Found(JournalEntry(record.val).val) ELSE Raised
    ELSE LET text == decrypt_entry_from_dict(data, passphrase)
         IN IF ~text.ok THEN Raised
            ELSE Found([k \in {"id", "content"} \cup PlaintextMetadata(data) |->
                          IF k = "content" THEN StrOf(text.val) ELSE data[k]])

\* C21: get_entry resolves an envelope that has the crypto fields by this
\* rule, whatever plaintext metadata keys it carries.
C21_EnvelopeResolvedByRule ==
    (/\ read_answer.op = "get_entry"
     /\ read_answer.file.kind = "json"
     /\ read_answer.passphrase # EmptyPass
     /\ _is_encrypted(read_answer.file.data)) =>
        read_answer.returned =
            ResolvedByRule(read_answer.file.data, read_answer.passphrase)

\* ================================================== claims: PII sanitizer
\* C22: for the tokenize method, detokenize_pii applied to the text and map
\* that obfuscate_pii returned gives back the original text, character for
\* character.
C22_TokenizeRoundTrip ==
    (restored.run /\ sanitized.method = "tokenize") =>
        restored.text = Chars(journal_text)

\* ============================================ claims: passphrase strength
\* C23: a passphrase that is in the common-password set is scored WEAK,
\* whatever its length, its character classes and its entropy.
C23_CommonIsWeak ==
    (/\ strength_answer.op = "check_passphrase_strength"
     /\ FactsOf(strength_answer.passphrase).lower \in common_passwords) =>
        strength_answer.strength = "WEAK"
\* ================================================= claims: CircuitBreaker
\* C24: a CLOSED circuit breaker opens exactly when failure_threshold failed
\* calls in a row have occurred: while it is CLOSED its failure count is the
\* number of failed calls since the last success and is below the threshold,
\* and whenever it went from CLOSED to OPEN that number was the threshold.
C24_OpensAtThreshold ==
    breaker.made =>
        /\ breaker.state = "CLOSED" =>
              /\ breaker.failure_count = cb_history.streak
              /\ cb_history.streak < breaker.failure_threshold
        /\ cb_history.opened_at # 0 =>
              cb_history.opened_at = breaker.failure_threshold
        /\ (cb_answer.op = "call" /\ cb_answer.before.state = "CLOSED") =>
              (cb_answer.after.state = "OPEN" <=>
                  /\ cb_answer.raised = "Exception"
                  /\ cb_answer.before.failure_count + 1 = breaker.failure_threshold)

\* A breaker with threshold 3: two failures, a success, then three failures
\* in a row open it.
C24_Witness ==
    /\ breaker.made
    /\ breaker.failure_threshold = 3
    /\ cb_calls = 6
    /\ breaker.state = "OPEN"
    /\ cb_history.opened_at = 3
    /\ cb_answer.op = "call"
    /\ cb_answer.before.state = "CLOSED"
    /\ cb_answer.before.failure_count = 2
\* C25: while the breaker is OPEN and fewer than timeout seconds have passed
\* since the last failure, call() raises CircuitBreakerError, does not invoke
\* the function, and leaves the breaker as it was, OPEN.
C25_OpenBlocksCalls ==
    (/\ cb_answer.op = "call"
     /\ cb_answer.before.state = "OPEN"
     /\ cb_answer.at - cb_answer.before.last_failure_time < cb_answer.before.timeout)
    => /\ cb_answer.raised = "CircuitBreakerError"
       /\ ~cb_answer.invoked
       /\ cb_answer.after = cb_answer.before
       /\ breaker.state = "OPEN"

\* A call one second after the failure that opened a breaker with a timeout
\* of two seconds.
C25_Witness ==
    /\ cb_answer.op = "call"
    /\ cb_answer.before.state = "OPEN"
    /\ cb_answer.before.timeout = 2
    /\ cb_answer.at = cb_answer.before.last_failure_time + 1
    /\ cb_answer.raised = "CircuitBreakerError"
    /\ breaker.state = "OPEN"

\* C26: once timeout seconds have passed since the last failure, the next
\* call() on an OPEN breaker runs the function in HALF_OPEN; a failed call in
\* HALF_OPEN puts the breaker back to OPEN, and the breaker is CLOSED, with a
\* failure count of 0, exactly when half_open_attempts calls in a row have
\* succeeded since it left OPEN.
C26_HalfOpenRecovery ==
    cb_answer.op = "call" =>
        /\ (/\ cb_answer.before.state = "OPEN"
            /\ cb_answer.at - cb_answer.before.last_failure_time
                  >= cb_answer.before.timeout)
           => /\ cb_answer.invoked
              /\ cb_answer.ran_in = "HALF_OPEN"
        /\ cb_answer.ran_in = "HALF_OPEN" =>
              /\ cb_answer.raised = "Exception" => cb_answer.after.state = "OPEN"
              /\ cb_answer.raised = "nothing" =>
                    /\ cb_answer.after.state = "CLOSED"
                          <=> cb_history.trial_successes = breaker.half_open_attempts
                    /\ cb_answer.after.state # "CLOSED"
                          => /\ cb_answer.after.state = "HALF_OPEN"
                             /\ cb_history.trial_successes < breaker.half_open_attempts
                    /\ cb_answer.after.state = "CLOSED"
                          => cb_answer.after.failure_count = 0

\* A breaker that needs two successes: the second successful call in
\* HALF_OPEN closes it and clears the failures counted before.
C26_Witness ==
    /\ cb_answer.op = "call"
    /\ breaker.half_open_attempts = 2
    /\ cb_answer.before.state = "HALF_OPEN"
    /\ cb_answer.before.failure_count > 0
    /\ cb_answer.raised = "nothing"
    /\ cb_history.trial_successes = 2
    /\ breaker.state = "CLOSED"
    /\ breaker.failure_count = 0
\* ============================================= claims: retry_with_backoff
\* C27: retry_with_backoff invokes func at most max_retries + 1 times; every
\* invocation but the last raised an exception listed in exceptions; it
\* returns the first successful result, raises the last exception again
\* after attempt max_retries + 1 failed, and lets an exception that is not
\* listed propagate at once; nothing else ends it.
C27_BoundedRetries ==
    retry.pc # "idle" =>
        LET n == Len(retry_trace)
        IN /\ n <= retry.max_retries + 1
           /\ \A i \in 1..n :
                 (i < n \/ retry.pc = "sleep") =>
                     /\ retry_trace[i].kind = "raise"
                     /\ retry_trace[i].type \in retry.exceptions
           /\ retry.pc = "done" =>
                 /\ n >= 1
                 /\ retry_outcome = retry_trace[n]
                 /\ \/ retry_trace[n].kind = "return"
                    \/ retry_trace[n].type \notin retry.exceptions
                    \/ n = retry.max_retries + 1
           /\ retry.pc # "done" =>
                 /\ retry_outcome = Pending
                 /\ n <= retry.max_retries
           /\ Len(retry_slept) = (IF retry.pc = "sleep" THEN n - 1
                                  ELSE IF retry.pc = "try" THEN n
                                  ELSE n - 1)

\* Every attempt of a call with max_retries = MaxRetries failed with a listed
\* exception: the last one is raised.
C27_Witness ==
    /\ retry.pc = "done"
    /\ retry.max_retries = MaxRetries
    /\ Len(retry_trace) = MaxRetries + 1
    /\ retry_outcome = ExceptionOf("ValueError", MaxRetries + 1)
    /\ Len(retry_slept) = MaxRetries
\* ================================================ claims: get_passphrase
\* The failed verifications before the i-th one and after the last
\* successful one, as the attempts the guard would have on file.
FailedBefore(i) ==
    LET last_ok == Max(0, CHOOSE j \in 0..(i - 1) :
                        /\ j = 0 \/ prompt_log[j].verified
                        /\ \A k \in (j + 1)..(i - 1) : ~prompt_log[k].verified)
        misses == SelectSeq(SubSeq(prompt_log, last_ok + 1, i - 1),
                            LAMBDA v : ~v.verified)
    IN [k \in 1..Len(misses) |-> FailedAttempt(misses[k].at, "decrypt", "local")]

\* C28: guessing through get_passphrase is throttled by the rate limit of
\* the guard: a typed passphrase is verified only when check_rate_limit,
\* given the failed verifications so far, allows an attempt, so that no
\* passphrase is verified once 5 verifications failed within 15 minutes.
C28_GuessingThrottled ==
    \A i \in 1..Len(prompt_log) :
        RateLimitAnswer(FailedBefore(i), prompt_log[i].at).allowed
\* ============================== claims: rotate_keys, the sample and Legacy
\* The old passphrase of the call is the correct one: it opens every record
\* of the directory that is readable JSON, and when no record is readable it
\* is the passphrase the records were saved under.
CorrectOldPassphrase ==
    /\ \A f \in Present0 :
          files0[f].kind = "json" => verify_passphrase(old_passphrase, files0[f])
    /\ \/ \E f \in Present0 : files0[f].kind = "json"
       \/ old_passphrase = AppPassphrase

\* C29: with the correct old passphrase and no I/O error, rotate_keys does
\* not return 'Old passphrase is incorrect'; when the record picked as the
\* sample is not readable JSON it is named in errors as a failed record and
\* every record that the old passphrase opens ends up re-encrypted under the
\* new passphrase.
C29_CorrectPassphraseNeverAborts ==
    (/\ pc = "done"
     /\ faults = 0
     /\ CorrectOldPassphrase
     /\ new_passphrase # EmptyPass
     /\ Present0 # {}) =>
        /\ result.errors # <<ErrorMsg(0, "Old passphrase is incorrect")>>
        /\ (sample # 0 /\ files0[sample].kind # "json") =>
              /\ sample \in FailedNames
              /\ \A f \in Present0 :
                    verify_passphrase(old_passphrase, files0[f]) =>
                        Opened(files[f], new_passphrase)
                            = Opened(files0[f], old_passphrase)
\* The Legacy records of the directory that get_entry reads with the old
\* passphrase.
ReadableLegacy0 ==
    {f \in Present0 :
        /\ files0[f].kind = "json"
        /\ _is_legacy_encryption(files0[f].data)
        /\ GetEntry(files0[f], old_passphrase).found}

\* C30: after a rotation with no I/O error, every Legacy record that
\* get_entry reads with the old passphrase is a Full envelope under the new
\* passphrase that get_entry reads as the same entry, text and metadata, and
\* it is not among the failed records.
C30_LegacyRecordsRotated ==
    (/\ pc = "done"
     /\ faults = 0
     /\ new_passphrase # EmptyPass) =>
        \A f \in ReadableLegacy0 :
            /\ f \notin FailedNames
            /\ files[f].kind = "json"
            /\ DOMAIN files[f].data = FullEnvelopeKeys
            /\ GetEntry(files[f], new_passphrase)
                  = GetEntry(files0[f], old_passphrase)

====
